---------------------------- MODULE Spec2Model ----------------------------
(***************************************************************************)
(* Model of the normalization-practice core: the schema validator          *)
(* (utils/validator.js) and the table data generator                        *)
(* (utils/dataTransformer.js), driven by the table builder's operations.    *)
(*                                                                         *)
(* JavaScript strings are TLA+ strings; the string primitives the code     *)
(* uses (trim, toLowerCase, replace, split, includes, startsWith,          *)
(* endsWith) are computed character by character.                          *)
(***************************************************************************)
EXTENDS Integers, Sequences, FiniteSets, TLC

(***************************************************************************)
(* JavaScript values that are not strings.                                 *)
(***************************************************************************)
\* undefined / null of JavaScript (a missing property reads as undefined)
Undefined == "<undefined>"
Null == "<null>"
IsNullish(v) == v = Undefined \/ v = Null

(***************************************************************************)
(* String primitives.                                                      *)
(***************************************************************************)
UpperChars == "ABCDEFGHIJKLMNOPQRSTUVWXYZ"
LowerChars == "abcdefghijklmnopqrstuvwxyz"
AlphabetSize == Len(UpperChars)

CharAt(s, i) == SubSeq(s, i, i)

\* \s of a JavaScript regular expression, for the characters used here
IsSpace(c) == c \in {" ", "\t", "\n"}

\* the case mappings of the letters, as tables from character to character
UpperToLower ==
  [c \in {CharAt(UpperChars, i) : i \in 1..AlphabetSize} |->
     CharAt(LowerChars, CHOOSE i \in 1..AlphabetSize : CharAt(UpperChars, i) = c)]
LowerToUpper ==
  [c \in {CharAt(LowerChars, i) : i \in 1..AlphabetSize} |->
     CharAt(UpperChars, CHOOSE i \in 1..AlphabetSize : CharAt(LowerChars, i) = c)]

RECURSIVE mapCharsFrom(_, _, _)
mapCharsFrom(s, i, table) ==
  IF i > Len(s) THEN ""
  ELSE (IF CharAt(s, i) \in DOMAIN table THEN table[CharAt(s, i)] ELSE CharAt(s, i))
         \o mapCharsFrom(s, i + 1, table)

toLowerCase(s) == mapCharsFrom(s, 1, UpperToLower)
toUpperCase(s) == mapCharsFrom(s, 1, LowerToUpper)

RECURSIVE trimStart(_)
trimStart(s) ==
  IF s # "" /\ IsSpace(CharAt(s, 1)) THEN trimStart(SubSeq(s, 2, Len(s))) ELSE s

RECURSIVE trimEnd(_)
trimEnd(s) ==
  IF s # "" /\ IsSpace(CharAt(s, Len(s))) THEN trimEnd(SubSeq(s, 1, Len(s) - 1)) ELSE s

trim(s) == trimEnd(trimStart(s))

\* s.replace(/\s+/g, '_'): every maximal run of whitespace becomes one "_"
RECURSIVE replaceSpacesFrom(_, _)
replaceSpacesFrom(s, i) ==
  IF i > Len(s) THEN ""
  ELSE IF IsSpace(CharAt(s, i))
    THEN (IF i > 1 /\ IsSpace(CharAt(s, i - 1)) THEN "" ELSE "_") \o replaceSpacesFrom(s, i + 1)
    ELSE CharAt(s, i) \o replaceSpacesFrom(s, i + 1)
replaceSpaces(s) ==
  IF \A i \in 1..Len(s) : ~IsSpace(CharAt(s, i)) THEN s ELSE replaceSpacesFrom(s, 1)

startsWith(s, p) == Len(p) <= Len(s) /\ SubSeq(s, 1, Len(p)) = p
endsWith(s, p) == Len(p) <= Len(s) /\ SubSeq(s, Len(s) - Len(p) + 1, Len(s)) = p
includes(s, p) ==
  Len(p) <= Len(s) /\ \E i \in 0..(Len(s) - Len(p)) : SubSeq(s, i + 1, i + Len(p)) = p

\* s.split(/[_\s]+/).filter(w => w.length > 0): the maximal runs of other characters
IsWordSep(c) == c = "_" \/ IsSpace(c)
RECURSIVE splitWordsFrom(_, _)
splitWordsFrom(s, cur) ==
  IF s = "" THEN (IF cur = "" THEN <<>> ELSE <<cur>>)
  ELSE IF IsWordSep(CharAt(s, 1))
    THEN (IF cur = "" THEN <<>> ELSE <<cur>>) \o splitWordsFrom(SubSeq(s, 2, Len(s)), "")
    ELSE splitWordsFrom(SubSeq(s, 2, Len(s)), cur \o CharAt(s, 1))
splitWords(s) == splitWordsFrom(s, "")

\* s.split('.'): the pieces between the dots, empty pieces kept
RECURSIVE splitDotFrom(_, _)
splitDotFrom(s, cur) ==
  IF s = "" THEN <<cur>>
  ELSE IF CharAt(s, 1) = "."
    THEN <<cur>> \o splitDotFrom(SubSeq(s, 2, Len(s)), "")
    ELSE splitDotFrom(SubSeq(s, 2, Len(s)), cur \o CharAt(s, 1))
splitDot(s) == splitDotFrom(s, "")
\* s.split('.', 2): at most the first two pieces
splitDot2(s) == LET p == splitDot(s) IN IF Len(p) > 2 THEN SubSeq(p, 1, 2) ELSE p

\* array.join(sep)
RECURSIVE join(_, _)
join(seq, sep) ==
  IF seq = <<>> THEN ""
  ELSE IF Len(seq) = 1 THEN seq[1]
  ELSE seq[1] \o sep \o join(Tail(seq), sep)

\* array.filter(p) keeps the order; SelectSeq of Sequences does the same
\* Array.from(new Set(seq)): first occurrences, in order
RECURSIVE dedupe(_)
dedupe(seq) ==
  IF seq = <<>> THEN <<>>
  ELSE LET front == dedupe(SubSeq(seq, 1, Len(seq) - 1))
           last == seq[Len(seq)]
       IN IF \E i \in 1..Len(front) : front[i] = last THEN front ELSE Append(front, last)

Range(seq) == {seq[i] : i \in 1..Len(seq)}
\* F applied to the value of v, which is computed once
With(v, F(_)) == CHOOSE r \in {F(w) : w \in {v}} : TRUE

Max2(a, b) == IF a >= b THEN a ELSE b


(***************************************************************************)
(* Table and column definitions.  A table is a record with the fields      *)
(* name, columns and saved; a column is a record with the fields name,     *)
(* type, mappingType and sourceCols.  A property the object does not have  *)
(* is a field the record does not have.                                    *)
(***************************************************************************)
Has(obj, f) == f \in DOMAIN obj
Get(obj, f) == IF Has(obj, f) THEN obj[f] ELSE Undefined
\* truthiness of a string-valued property: present, not null, not ''
Truthy(obj, f) == Has(obj, f) /\ ~IsNullish(obj[f]) /\ obj[f] # ""

(***************************************************************************)
(* validator.js                                                            *)
(***************************************************************************)
\* thresholds written in the validator
OverlapNum == 7
OverlapDen == 10
MinSuffixLen == 3
MissingTableTolerance == 2

normalizeName(name) == replaceSpaces(toLowerCase(trim(name)))

\* target.length < col.length ? target : col, and its counterpart
shorterOf(target, col) == IF Len(target) < Len(col) THEN target ELSE col
longerOf(target, col) == IF Len(target) >= Len(col) THEN target ELSE col

\* shorter.length / longer.length >= 0.7 (0/0 is NaN, which is not >= 0.7)
overlapOk(shorter, longer) ==
  Len(longer) > 0 /\ OverlapDen * Len(shorter) >= OverlapNum * Len(longer)

\* longer.startsWith(shorter) and longer.endsWith(shorter) for the pair
isPrefixPair(target, col) == startsWith(longerOf(target, col), shorterOf(target, col))
isSuffixPair(target, col) == endsWith(longerOf(target, col), shorterOf(target, col))

\* one turn of the loop of the second pass: the pick after the i-th column,
\* whose normalized name is col, when the pick before it is cur (0 for null)
\* and current is the normalized name of that pick
nextPrefixSuffixMatch(target, col, i, cur, current) ==
  IF isPrefixPair(target, col)
    THEN (IF cur = 0 \/ Len(col) > Len(current) THEN i ELSE cur)
  ELSE IF isSuffixPair(target, col)
    THEN (IF cur = 0 THEN i
          ELSE IF isSuffixPair(target, current) /\ Len(col) > Len(current) THEN i
          ELSE IF ~isSuffixPair(target, current) THEN i
          ELSE cur)
  ELSE cur

\* second pass of findMatchingColumn over the normalized names: the index of
\* prefixSuffixMatch after the loop, 0 for null
RECURSIVE prefixSuffixScan(_, _, _, _)
prefixSuffixScan(target, normalized, i, cur) ==
  IF i > Len(normalized) THEN cur
  ELSE prefixSuffixScan(target, normalized, i + 1,
                        nextPrefixSuffixMatch(target, normalized[i], i, cur,
                                              IF cur = 0 THEN "" ELSE normalized[cur]))

\* the test on prefixSuffixMatch after the loop: the pick when it is returned, else 0
acceptPrefixSuffix(target, normalized, pick) ==
  IF pick = 0 THEN 0
  ELSE IF isPrefixPair(target, normalized[pick])
    THEN (IF overlapOk(shorterOf(target, normalized[pick]), longerOf(target, normalized[pick]))
            THEN pick ELSE 0)
  ELSE IF isSuffixPair(target, normalized[pick])
    THEN (IF Len(shorterOf(target, normalized[pick])) >= MinSuffixLen THEN pick ELSE 0)
  ELSE 0

\* the word test of the third pass: equal, or one starts with the other
wordPrefixMatch(a, b) == a = b \/ startsWith(a, b) \/ startsWith(b, a)

\* every word of the shorter list matches a word of the longer list
allShorterWordsMatch(targetWords, colWords) ==
  IF Len(targetWords) <= Len(colWords)
    THEN \A a \in 1..Len(targetWords) : \E b \in 1..Len(colWords) :
           wordPrefixMatch(targetWords[a], colWords[b])
    ELSE \A a \in 1..Len(colWords) : \E b \in 1..Len(targetWords) :
           wordPrefixMatch(colWords[a], targetWords[b])

\* the number of target words that match a word of the column
matchingWords(targetWords, colWords) ==
  Cardinality({a \in 1..Len(targetWords) : \E b \in 1..Len(colWords) :
                 wordPrefixMatch(targetWords[a], colWords[b])})

\* the column replaces bestMatch: score > 0.5 && score > bestScore, where
\* score is matching / Max2(lengths) and bestScore is bestNum / bestDen
scoresBetter(targetWords, colWords, matching, bestNum, bestDen) ==
  /\ Len(targetWords) > 0
  /\ Len(colWords) > 0
  /\ allShorterWordsMatch(targetWords, colWords)
  /\ 2 * matching > Max2(Len(targetWords), Len(colWords))
  /\ matching * bestDen > bestNum * Max2(Len(targetWords), Len(colWords))

\* one turn of the loop of the third pass
RECURSIVE wordScan(_, _, _, _, _, _)
wordScanStep(targetWords, normalized, i, colWords, matching, best, bestNum, bestDen) ==
  IF scoresBetter(targetWords, colWords, matching, bestNum, bestDen)
    THEN wordScan(targetWords, normalized, i + 1, i, matching,
                  Max2(Len(targetWords), Len(colWords)))
    ELSE wordScan(targetWords, normalized, i + 1, best, bestNum, bestDen)

\* third pass of findMatchingColumn over the normalized names: best is the
\* index of bestMatch (0 for null), bestNum / bestDen is bestScore
wordScan(targetWords, normalized, i, best, bestNum, bestDen) ==
  IF i > Len(normalized) THEN best
  ELSE wordScanStep(targetWords, normalized, i, splitWords(normalized[i]),
                    matchingWords(targetWords, splitWords(normalized[i])),
                    best, bestNum, bestDen)

\* last pass of findMatchingColumn
substringAccepts(targetNormalized, colNormalized) ==
  /\ Len(shorterOf(targetNormalized, colNormalized)) >= MinSuffixLen
  /\ includes(longerOf(targetNormalized, colNormalized),
              shorterOf(targetNormalized, colNormalized))
  /\ overlapOk(shorterOf(targetNormalized, colNormalized),
               longerOf(targetNormalized, colNormalized))
  /\ (isPrefixPair(targetNormalized, colNormalized)
        \/ isSuffixPair(targetNormalized, colNormalized))

\* the first index whose element satisfies P, 0 when there is none
firstIndex(seq, P(_)) ==
  IF \E i \in 1..Len(seq) : P(seq[i])
    THEN CHOOSE i \in 1..Len(seq) : P(seq[i]) /\ \A j \in 1..(i - 1) : ~P(seq[j])
    ELSE 0

\* a when it is an index, b when a is 0
orElse(a, b) == IF a # 0 THEN a ELSE b

\* the four passes of findMatchingColumn over the normalized names
findByNormalized(target, normalized) ==
  orElse(firstIndex(normalized, LAMBDA n : n = target),
  orElse(acceptPrefixSuffix(target, normalized, prefixSuffixScan(target, normalized, 1, 0)),
  orElse(wordScan(splitWords(target), normalized, 1, 0, 0, 1),
         firstIndex(normalized, LAMBDA n : substringAccepts(target, n)))))

\* the normalized names of the columns
normalizedNames(columns) ==
  <<>> \o [i \in 1..Len(columns) |-> normalizeName(columns[i].name)]

\* the index in columnsToSearch of the column findMatchingColumn returns, 0 for null
findMatchingColumn(targetColName, columnsToSearch) ==
  findByNormalized(normalizeName(targetColName), normalizedNames(columnsToSearch))

\* the word test of columnsMatch, tablesMatchByName and findMatchingTables
wordLooseMatch(a, b) ==
  a = b \/ startsWith(a, b) \/ startsWith(b, a) \/ includes(a, b) \/ includes(b, a)

allWordsMatch(words1, words2) ==
  \A a \in 1..Len(words1) : \E b \in 1..Len(words2) : wordLooseMatch(words1[a], words2[b])

\* col.type?.toUpperCase()
typeUpper(col) == IF Has(col, "type") /\ ~IsNullish(col.type) THEN toUpperCase(col.type) ELSE Undefined
\* col.type?.toUpperCase() || 'ATTRIBUTE'
typeOrAttribute(col) ==
  IF IsNullish(typeUpper(col)) \/ typeUpper(col) = "" THEN "ATTRIBUTE" ELSE typeUpper(col)

columnsMatch(userCol, solutionCol) ==
  LET userNormalized == normalizeName(userCol.name)
      solutionNormalized == normalizeName(solutionCol.name)
      userWords == splitWords(userNormalized)
      solutionWords == splitWords(solutionNormalized)
      namesMatch ==
        \/ userNormalized = solutionNormalized
        \/ includes(userNormalized, solutionNormalized)
        \/ includes(solutionNormalized, userNormalized)
        \/ /\ Len(userWords) > 0
           /\ Len(solutionWords) > 0
           /\ (allWordsMatch(userWords, solutionWords) \/ allWordsMatch(solutionWords, userWords))
      userType == typeOrAttribute(userCol)
      solutionType == typeOrAttribute(solutionCol)
  IN /\ namesMatch
     /\ (solutionType \in {"PK", "FK"} => userType = solutionType)

columnNamesMatch(colName1, colName2) ==
  LET norm1 == normalizeName(colName1)
      norm2 == normalizeName(colName2)
      shorter == shorterOf(norm1, norm2)
      longer == longerOf(norm1, norm2)
  IN \/ norm1 = norm2
     \/ (endsWith(longer, shorter) /\ Len(shorter) >= MinSuffixLen)
     \/ (startsWith(longer, shorter) /\ overlapOk(shorter, longer))

tablesMatchByName(tableName1, tableName2) ==
  LET norm1 == normalizeName(tableName1)
      norm2 == normalizeName(tableName2)
      words1 == splitWords(norm1)
      words2 == splitWords(norm2)
  IN \/ norm1 = norm2
     \/ includes(norm1, norm2)
     \/ includes(norm2, norm1)
     \/ /\ Len(words1) > 0
        /\ Len(words2) > 0
        /\ (allWordsMatch(words1, words2) \/ allWordsMatch(words2, words1))

sourceColsMatch(sourceCol1, sourceCol2) ==
  LET norm1 == normalizeName(sourceCol1)
      norm2 == normalizeName(sourceCol2)
      parts1 == splitDot2(sourceCol1)
      parts2 == splitDot2(sourceCol2)
  IN IF norm1 = norm2 THEN TRUE
     ELSE IF includes(sourceCol1, ".") /\ includes(sourceCol2, ".")
       THEN tablesMatchByName(parts1[1], parts2[1]) /\ columnNamesMatch(parts1[2], parts2[2])
     ELSE FALSE

\* a check that wants every source column of the solution matched
validateColumnMappingExhaustive(userCol, solutionCol) ==
  IF ~Truthy(solutionCol, "mappingType") \/ ~Has(solutionCol, "sourceCols")
    THEN [valid |-> TRUE, error |-> ""]
  ELSE [valid |-> /\ Get(userCol, "mappingType") = solutionCol.mappingType
                  /\ Has(userCol, "sourceCols")
                  /\ \A s \in 1..Len(solutionCol.sourceCols) :
                       \E u \in 1..Len(userCol.sourceCols) :
                         sourceColsMatch(userCol.sourceCols[u], solutionCol.sourceCols[s]),
        error |-> ""]

\* the result of validateColumnMapping: valid, and the error when not valid
validateColumnMapping(userCol, solutionCol) ==
  LET gotMapping == IF Truthy(userCol, "mappingType") THEN userCol.mappingType ELSE "none"
      hasAnyMatch ==
        \E s \in 1..Len(solutionCol.sourceCols) : \E u \in 1..Len(userCol.sourceCols) :
          sourceColsMatch(userCol.sourceCols[u], solutionCol.sourceCols[s])
      hasMatch ==
        \E u \in 1..Len(userCol.sourceCols) :
          sourceColsMatch(userCol.sourceCols[u], solutionCol.sourceCols[1])
  IN IF ~Truthy(solutionCol, "mappingType") \/ ~Has(solutionCol, "sourceCols")
       THEN [valid |-> TRUE, error |-> ""]
     ELSE IF Get(userCol, "mappingType") # solutionCol.mappingType
       THEN [valid |-> FALSE,
             error |-> userCol.name \o " should use " \o solutionCol.mappingType
                         \o " mapping (got " \o gotMapping \o ")"]
     ELSE IF Has(userCol, "sourceCols")
       THEN IF ~hasAnyMatch
              THEN [valid |-> FALSE,
                    error |-> userCol.name \o " should include source column: "
                                \o join(solutionCol.sourceCols, " or ")]
            ELSE IF Len(solutionCol.sourceCols) = 1 /\ ~hasMatch
              THEN [valid |-> FALSE,
                    error |-> userCol.name \o " should include source column: "
                                \o solutionCol.sourceCols[1]]
            ELSE [valid |-> TRUE, error |-> ""]
     ELSE [valid |-> FALSE, error |-> userCol.name \o " is missing source column mapping"]


\* a test that accepts equal names only
exactNamesMatch(userTableName, solutionTableName) == userTableName = solutionTableName

\* the test of findMatchingTables for one user and one solution table name
tableNamesMatch(userTableName, solutionTableName) ==
  LET userWords == splitWords(userTableName)
      solutionWords == splitWords(solutionTableName)
      allUserWordsMatch == allWordsMatch(userWords, solutionWords)
      allSolutionWordsMatch ==
        \A s \in 1..Len(solutionWords) : \E u \in 1..Len(userWords) :
          \/ solutionWords[s] = userWords[u]
          \/ startsWith(solutionWords[s], userWords[u])
          \/ startsWith(userWords[u], solutionWords[s])
          \/ includes(solutionWords[s], userWords[u])
          \/ includes(userWords[u], userWords[u])
  IN \/ userTableName = solutionTableName
     \/ includes(userTableName, solutionTableName)
     \/ includes(solutionTableName, userTableName)
     \/ /\ Len(userWords) > 0
        /\ Len(solutionWords) > 0
        /\ (allUserWordsMatch \/ allSolutionWordsMatch)

\* the indices in solutionTables of the tables findMatchingTables returns, in order
findMatchingTables(userTable, solutionTables) ==
  SelectSeq([i \in 1..Len(solutionTables) |-> i],
            LAMBDA i : tableNamesMatch(normalizeName(userTable.name),
                                       normalizeName(solutionTables[i].name)))

\* the errors of a loop that checks the role of primary keys only
columnErrorsPkOnly(userCol, solutionCol) ==
  LET roleError ==
        IF columnsMatch(userCol, solutionCol) THEN <<>>
        ELSE IF Get(solutionCol, "type") = "PK" /\ typeUpper(userCol) # "PK"
          THEN <<"Column " \o solutionCol.name \o " should be a Primary Key (PK)">>
        ELSE <<>>
  IN roleError \o With(validateColumnMapping(userCol, solutionCol),
                       LAMBDA mappingValidation :
                         IF mappingValidation.valid THEN <<>> ELSE <<mappingValidation.error>>)

\* the errors of validateTable's loop over the solution columns
columnErrorsAt(userCol, solutionCol) ==
  LET roleError ==
        IF columnsMatch(userCol, solutionCol) THEN <<>>
        ELSE IF Get(solutionCol, "type") = "PK" /\ typeUpper(userCol) # "PK"
          THEN <<"Column " \o solutionCol.name \o " should be a Primary Key (PK)">>
        ELSE IF Get(solutionCol, "type") = "FK" /\ typeUpper(userCol) # "FK"
          THEN <<"Column " \o solutionCol.name \o " should be a Foreign Key (FK)">>
        ELSE <<>>
  IN roleError \o With(validateColumnMapping(userCol, solutionCol),
                       LAMBDA mappingValidation :
                         IF mappingValidation.valid THEN <<>> ELSE <<mappingValidation.error>>)

columnErrors(userTable, solutionCol) ==
  With(findMatchingColumn(solutionCol.name, userTable.columns),
       LAMBDA u : IF u = 0 THEN <<"Missing column: " \o solutionCol.name>>
                  ELSE columnErrorsAt(userTable.columns[u], solutionCol))

RECURSIVE flatten(_)
flatten(seqs) == IF seqs = <<>> THEN <<>> ELSE seqs[1] \o flatten(Tail(seqs))

pkColumns(table) == SelectSeq(table.columns, LAMBDA c : Get(c, "type") = "PK")
userPkColumns(table) == SelectSeq(table.columns, LAMBDA c : typeUpper(c) = "PK")
names(cols) == [i \in 1..Len(cols) |-> cols[i].name]

\* solutionPKs: the solution's PK columns under the names of their matched user
\* columns (the sort is left out: only membership and emptiness are read)
solutionPKsOf(userTable, solutionTable) ==
  [i \in 1..Len(pkColumns(solutionTable)) |->
     With(findMatchingColumn(pkColumns(solutionTable)[i].name, userTable.columns),
          LAMBDA matched :
            IF matched # 0 THEN normalizeName(userTable.columns[matched].name)
            ELSE normalizeName(pkColumns(solutionTable)[i].name))]

\* userPKs
userPKsOf(userTable) ==
  [i \in 1..Len(userPkColumns(userTable)) |-> normalizeName(userPkColumns(userTable)[i].name)]

\* a check that looks for missing primary keys only
pkErrorsMissingOnly(userTable, solutionTable) ==
  IF SelectSeq(solutionPKsOf(userTable, solutionTable),
               LAMBDA pk : pk \notin Range(userPKsOf(userTable))) # <<>>
    THEN <<"Primary keys don't match. Expected: "
             \o join(names(pkColumns(solutionTable)), ", ")
             \o ", Got: " \o join(names(userPkColumns(userTable)), ", ")>>
    ELSE <<>>

\* the primary-key check of validateTable: one error when missingPKs or
\* extraPKs is not empty
pkErrors(userTable, solutionTable) ==
  LET solutionPKs == solutionPKsOf(userTable, solutionTable)
      userPKs == userPKsOf(userTable)
      missingPKs == SelectSeq(solutionPKs, LAMBDA pk : pk \notin Range(userPKs))
      extraPKs == SelectSeq(userPKs, LAMBDA pk : pk \notin Range(solutionPKs))
  IN IF missingPKs # <<>> \/ extraPKs # <<>>
       THEN <<"Primary keys don't match. Expected: "
                \o join(names(pkColumns(solutionTable)), ", ")
                \o ", Got: " \o join(names(userPkColumns(userTable)), ", ")>>
       ELSE <<>>

\* the result of validateTable: errors and warnings, in the order they are pushed
validateTable(userTable, solutionTable) ==
  LET missingAndMapping ==
        flatten([i \in 1..Len(solutionTable.columns) |->
                   columnErrors(userTable, solutionTable.columns[i])])
      extra ==
        SelectSeq(userTable.columns,
                  LAMBDA c : findMatchingColumn(c.name, solutionTable.columns) = 0)
      warnings ==
        [i \in 1..Len(extra) |->
           "Extra column: " \o extra[i].name \o " (not in solution, but may be acceptable)"]
  IN [errors |-> missingAndMapping \o pkErrors(userTable, solutionTable),
      warnings |-> warnings]

\* the phrases by which validateSolution recognises a column-specific error
ColumnSpecificPhrases ==
  {"should be a", "should use", "should include source column", "should map to",
   "is missing source column"}
isColumnSpecific(e) == \E p \in ColumnSpecificPhrases : includes(e, p)

\* the first candidate, whatever its errors
firstCandidate(validations) == 1

\* bestMatch of validateSolution: the first candidate with the fewest errors;
\* validations[k] is the validation against the k-th candidate
bestOf(validations) ==
  CHOOSE k \in 1..Len(validations) :
    /\ \A j \in 1..Len(validations) :
         Len(validations[k].errors) <= Len(validations[j].errors)
    /\ \A j \in 1..(k - 1) : Len(validations[j].errors) > Len(validations[k].errors)

\* what one pass of validateSolution's loop over the user tables adds when no
\* solution table matches
unmatchedOutcome(userTable) ==
  [detail |-> [tableName |-> userTable.name, isValid |-> FALSE,
               errors |-> <<"Table \"" \o userTable.name
                              \o "\" doesn't match any expected table structure">>,
               warnings |-> <<>>],
   errors |-> <<"Table \"" \o userTable.name \o "\" doesn't match any solution table">>,
   warnings |-> <<>>,
   valid |-> FALSE,
   bestMatch |-> 0]

\* an outcome that never makes the result invalid
matchedOutcomeLenient(userTable, bestMatch, bestValidation) ==
  [detail |-> [tableName |-> userTable.name, isValid |-> TRUE,
               errors |-> bestValidation.errors, warnings |-> bestValidation.warnings],
   errors |-> <<>>,
   warnings |-> <<>>,
   valid |-> TRUE,
   bestMatch |-> bestMatch]

\* and when bestValidation is the validation against the best match
matchedOutcome(userTable, bestMatch, bestValidation) ==
  LET generalErrors == SelectSeq(bestValidation.errors, LAMBDA e : ~isColumnSpecific(e))
  IN [detail |-> [tableName |-> userTable.name,
                  isValid |-> bestValidation.errors = <<>>,
                  errors |-> bestValidation.errors,
                  warnings |-> bestValidation.warnings],
      errors |-> [i \in 1..Len(generalErrors) |-> userTable.name \o ": " \o generalErrors[i]],
      warnings |-> [i \in 1..Len(bestValidation.warnings) |->
                      userTable.name \o ": " \o bestValidation.warnings[i]],
      valid |-> bestValidation.errors = <<>>,
      bestMatch |-> bestMatch]

\* what one pass of validateSolution's loop over the user tables adds
userTableOutcome(userTable, solutionTables) ==
  With(findMatchingTables(userTable, solutionTables),
       LAMBDA matchingSolutionTables :
         IF matchingSolutionTables = <<>> THEN unmatchedOutcome(userTable)
         ELSE With(<<>> \o [k \in 1..Len(matchingSolutionTables) |->
                             validateTable(userTable,
                                           solutionTables[matchingSolutionTables[k]])],
                   LAMBDA validations :
                     matchedOutcome(userTable,
                                    matchingSolutionTables[bestOf(validations)],
                                    validations[bestOf(validations)])))

\* found of validateSolution's loop over the solution tables
solutionTableFound(userTables, solutionTable) ==
  \E i \in 1..Len(userTables) :
    /\ findMatchingTables(userTables[i], <<solutionTable>>) # <<>>
    /\ Len(validateTable(userTables[i], solutionTable).errors) <= MissingTableTolerance

\* name.trim() of normalizeName raises a TypeError when the name is undefined or
\* null, and so does columns.forEach when there is no columns list
tableThrows(table) ==
  \/ ~Has(table, "columns")
  \/ \E i \in 1..Len(table.columns) : IsNullish(Get(table.columns[i], "name"))

validateSolutionThrows(userTables, solutionTables) ==
  \/ \E i \in 1..Len(userTables) : IsNullish(Get(userTables[i], "name"))
  \/ \E j \in 1..Len(solutionTables) : IsNullish(Get(solutionTables[j], "name"))
  \/ \E i \in 1..Len(userTables) : \E j \in 1..Len(solutionTables) :
       /\ findMatchingTables(userTables[i], <<solutionTables[j]>>) # <<>>
       /\ (tableThrows(userTables[i]) \/ tableThrows(solutionTables[j]))

\* a report whose verdict is read off the error list
reportByErrorList(outcomes, missing) ==
  [kind |-> "report",
   isValid |-> (\A i \in 1..Len(outcomes) : outcomes[i].errors = <<>>) /\ missing = <<>>,
   errors |-> dedupe(flatten([i \in 1..Len(outcomes) |-> outcomes[i].errors])
                       \o [j \in 1..Len(missing) |-> "Missing table: " \o missing[j].name]),
   warnings |-> dedupe(flatten([i \in 1..Len(outcomes) |-> outcomes[i].warnings])),
   tableDetails |-> [i \in 1..Len(outcomes) |-> outcomes[i].detail]]
\* the report of validateSolution from the outcomes of the user tables and the
\* solution tables that were not found
report(outcomes, missing) ==
  [kind |-> "report",
   isValid |-> (\A i \in 1..Len(outcomes) : outcomes[i].valid) /\ missing = <<>>,
   errors |-> dedupe(flatten([i \in 1..Len(outcomes) |-> outcomes[i].errors])
                       \o [j \in 1..Len(missing) |-> "Missing table: " \o missing[j].name]),
   warnings |-> dedupe(flatten([i \in 1..Len(outcomes) |-> outcomes[i].warnings])),
   tableDetails |-> [i \in 1..Len(outcomes) |-> outcomes[i].detail]]

\* the value of validateSolution: the report it returns, or the exception it raises
validateSolution(userTables, solutionTables) ==
  IF userTables = <<>>
    THEN [kind |-> "report", isValid |-> FALSE, errors |-> <<"No tables provided">>,
          warnings |-> <<>>, tableDetails |-> <<>>]
  ELSE IF validateSolutionThrows(userTables, solutionTables)
    THEN [kind |-> "TypeError", isValid |-> FALSE, errors |-> <<>>,
          warnings |-> <<>>, tableDetails |-> <<>>]
  ELSE With(<<>> \o [i \in 1..Len(userTables) |->
                      userTableOutcome(userTables[i], solutionTables)],
            LAMBDA outcomes :
              With(SelectSeq(solutionTables,
                             LAMBDA t : ~solutionTableFound(userTables, t)),
                   LAMBDA missing : report(outcomes, missing)))

\* a validator that marks the user tables it has validated
argumentsMarkedByValidateSolution(userTables, solutionTables) ==
  [userTables |-> [i \in 1..Len(userTables) |->
                     [f \in (DOMAIN userTables[i]) \cup {"validated"} |->
                        IF f = "validated" THEN TRUE ELSE userTables[i][f]]],
   solutionTables |-> solutionTables]

\* the arguments of validateSolution after the call: it pushes to result,
\* allErrors, allWarnings and the arrays of its helpers, and sorts the arrays
\* that filter and map return, so the tables are as they were
argumentsAfterValidateSolution(userTables, solutionTables) ==
  [userTables |-> userTables, solutionTables |-> solutionTables]

(***************************************************************************)
(* dataTransformer.js.  A raw dataset is a record with the fields columns   *)
(* and rows; a row is a sequence of cells; a cell is a string, Null or     *)
(* Undefined.  The value of a generator call is the row sequence it        *)
(* returns, or the exception it raises.                                    *)
(***************************************************************************)
\* rawData = null
NullData == [null |-> TRUE]
IsNullData(d) == Has(d, "null")

Rows(rs) == [kind |-> "rows", rows |-> rs]
Raised == [kind |-> "TypeError", rows |-> <<>>]

\* truthiness of a cell value
TruthyValue(v) == ~IsNullish(v) /\ v # ""
\* v || ''
OrEmpty(v) == IF TruthyValue(v) THEN v ELSE ""

\* array.indexOf(x), counted from 1; 0 when x is not an element
indexOf(seq, x) ==
  IF \E i \in 1..Len(seq) : seq[i] = x
    THEN CHOOSE i \in 1..Len(seq) : seq[i] = x /\ \A j \in 1..(i - 1) : seq[j] # x
    ELSE 0

\* row[index]: undefined beyond the end of the row
cellAt(row, index) == IF index >= 1 /\ index <= Len(row) THEN row[index] ELSE Undefined

\* col.sourceCols && col.sourceCols.length > 0
hasSources(col) == Has(col, "sourceCols") /\ Len(col.sourceCols) > 0

\* JSON.stringify(row) as a key: undefined is written as null
jsonKey(row) == [i \in 1..Len(row) |-> IF row[i] = Undefined THEN Null ELSE row[i]]

\* the rows whose key is seen for the first time, in order
uniqueByKey(rows, keyOf(_)) ==
  LET kept == SelectSeq([i \in 1..Len(rows) |-> i],
                        LAMBDA i : \A j \in 1..(i - 1) : keyOf(rows[j]) # keyOf(rows[i]))
  IN [k \in 1..Len(kept) |-> rows[kept[k]]]

\* a test that takes a whitespace-only cell for a value
hasValueUntrimmed(cellValue) == ~IsNullish(cellValue) /\ cellValue # ""

\* String(cellValue).trim() !== '' for a cell that is neither null nor undefined
hasValue(cellValue) == ~IsNullish(cellValue) /\ trim(cellValue) # ""

\* the valid indices of the master source columns, unresolved ones dropped
masterIndices(masterSourceCols, rawColumns) ==
  SelectSeq([i \in 1..Len(masterSourceCols) |-> indexOf(rawColumns, masterSourceCols[i])],
            LAMBDA idx : idx # 0)

\* the row the unpivot builds for one raw row and one position of the master list
unpivotRow(table, rawColumns, rawRow, masterSourceCols, sourceIdx) ==
  [c \in 1..Len(table.columns) |->
     LET col == table.columns[c]
     IN IF Get(col, "mappingType") = "direct"
          THEN IF hasSources(col)
                 THEN (IF indexOf(rawColumns, col.sourceCols[1]) # 0
                         THEN cellAt(rawRow, indexOf(rawColumns, col.sourceCols[1]))
                         ELSE "")
                 ELSE ""
        ELSE IF Get(col, "mappingType") = "consolidate"
          THEN IF Has(col, "sourceCols") /\ Len(col.sourceCols) >= sourceIdx
                 THEN (IF indexOf(rawColumns, col.sourceCols[sourceIdx]) # 0
                         THEN cellAt(rawRow, indexOf(rawColumns, col.sourceCols[sourceIdx]))
                         ELSE "")
                 ELSE ""
        ELSE IF Get(col, "mappingType") = "metadata"
          THEN OrEmpty(cellAt(masterSourceCols, sourceIdx))
        ELSE ""]

\* the rows one raw row contributes to the unpivot, before duplicates are removed
unpivotRowsOf(table, rawColumns, rawRow, masterSourceCols) ==
  LET indices == masterIndices(masterSourceCols, rawColumns)
      emitting ==
        SelectSeq([i \in 1..Len(indices) |-> i],
                  LAMBDA i : indices[i] <= Len(rawRow) /\ hasValue(rawRow[indices[i]]))
  IN [k \in 1..Len(emitting) |->
        unpivotRow(table, rawColumns, rawRow, masterSourceCols, emitting[k])]

\* the direct path copying the first source of every mapped column
directRowOfAnyMapping(table, rawColumns, rawRow) ==
  [c \in 1..Len(table.columns) |->
     LET col == table.columns[c]
     IN IF hasSources(col)
          THEN (IF indexOf(rawColumns, col.sourceCols[1]) # 0
                  THEN cellAt(rawRow, indexOf(rawColumns, col.sourceCols[1]))
                  ELSE "")
          ELSE ""]
\* the row of the direct path for one raw row
directRow(table, rawColumns, rawRow) ==
  [c \in 1..Len(table.columns) |->
     LET col == table.columns[c]
     IN IF Get(col, "mappingType") = "direct" /\ hasSources(col)
          THEN (IF indexOf(rawColumns, col.sourceCols[1]) # 0
                  THEN cellAt(rawRow, indexOf(rawColumns, col.sourceCols[1]))
                  ELSE "")
          ELSE ""]

\* the local rows of generateTableDataFromRaw, before duplicates are removed
rawRowsBeforeDedup(table, rawData) ==
  LET rawRows == IF Has(rawData, "rows") THEN rawData.rows ELSE <<>>
      rawColumns == IF Has(rawData, "columns") THEN rawData.columns ELSE <<>>
      consolidationColumns ==
        SelectSeq(table.columns,
                  LAMBDA col : Get(col, "mappingType") = "consolidate" /\ hasSources(col))
      masterSourceCols == consolidationColumns[1].sourceCols
  IN IF consolidationColumns # <<>>
       THEN IF masterIndices(masterSourceCols, rawColumns) = <<>> THEN <<>>
            ELSE flatten([r \in 1..Len(rawRows) |->
                            unpivotRowsOf(table, rawColumns, rawRows[r], masterSourceCols)])
       ELSE [r \in 1..Len(rawRows) |-> directRow(table, rawColumns, rawRows[r])]

generateTableDataFromRaw(table, rawData) ==
  IF ~Has(table, "columns") \/ table.columns = <<>> THEN Rows(<<>>)
  ELSE IF IsNullData(rawData) THEN Raised
  ELSE Rows(uniqueByKey(rawRowsBeforeDedup(table, rawData), jsonKey))

\* `${v}` in a template string
str(v) == IF v = Undefined THEN "undefined" ELSE IF v = Null THEN "null" ELSE v

\* a flag that is never read
savedOrNot(t) == TRUE

\* table.saved
isSaved(t) == Has(t, "saved") /\ t.saved = TRUE

\* a Map in insertion order, as the sequence of its entries
mapHas(m, k) == \E i \in 1..Len(m) : m[i].key = k
mapGet(m, k) == m[CHOOSE i \in 1..Len(m) : m[i].key = k].val

\* one map.set(key, val); ifAbsent when it is guarded by !map.has(key)
SetOp(k, v) == [key |-> k, val |-> v, ifAbsent |-> FALSE]
SetIfAbsentOp(k, v) == [key |-> k, val |-> v, ifAbsent |-> TRUE]

\* the Map a sequence of set operations leaves: a key keeps the position of
\* its first set and the value of its last set that took effect
mapOf(ops) ==
  LET isFirst(i) == \A j \in 1..(i - 1) : ops[j].key # ops[i].key
      tookEffect(i) == ~ops[i].ifAbsent \/ isFirst(i)
      firsts == SelectSeq([i \in 1..Len(ops) |-> i], isFirst)
      lastOf(k) == CHOOSE i \in 1..Len(ops) :
                     /\ ops[i].key = k /\ tookEffect(i)
                     /\ \A j \in (i + 1)..Len(ops) : ~(ops[j].key = k /\ tookEffect(j))
  IN [n \in 1..Len(firsts) |->
        [key |-> ops[firsts[n]].key, val |-> ops[lastOf(ops[firsts[n]].key)].val]]

\* new Map(columns.map((col, idx) => [col.name, idx]))
columnMapOf(t) ==
  mapOf([i \in 1..Len(t.columns) |-> SetOp(Get(t.columns[i], "name"), i)])

\* the first element of seq that satisfies P, or default
firstWhere(seq, P(_), default) ==
  IF \E i \in 1..Len(seq) : P(seq[i])
    THEN seq[CHOOSE i \in 1..Len(seq) : P(seq[i]) /\ \A j \in 1..(i - 1) : ~P(seq[j])]
    ELSE default

\* the normalizeName helper of generateTableDataFromPreviousForm
normalizeNameOrEmpty(name) ==
  IF IsNullish(name) \/ name = "" THEN "" ELSE replaceSpaces(toLowerCase(trim(name)))

\* a test that accepts equal names and a first name that contains the second
tablesMatchOneWay(tableName1, tableName2) ==
  \/ normalizeNameOrEmpty(tableName1) = normalizeNameOrEmpty(tableName2)
  \/ includes(normalizeNameOrEmpty(tableName1), normalizeNameOrEmpty(tableName2))

tablesMatch(tableName1, tableName2) ==
  LET norm1 == normalizeNameOrEmpty(tableName1)
      norm2 == normalizeNameOrEmpty(tableName2)
      words1 == splitWords(norm1)
      words2 == splitWords(norm2)
  IN \/ norm1 = norm2
     \/ includes(norm1, norm2)
     \/ includes(norm2, norm1)
     \/ /\ Len(words1) > 0
        /\ Len(words2) > 0
        /\ (allWordsMatch(words1, words2) \/ allWordsMatch(words2, words1))

\* previousFormTables.find(t => tablesMatch(t.name, targetTableName)), as an
\* index; 0 when there is none
findMatchingTable(previousFormTables, targetTableName) ==
  IF \E i \in 1..Len(previousFormTables) :
       tablesMatch(Get(previousFormTables[i], "name"), targetTableName)
    THEN CHOOSE i \in 1..Len(previousFormTables) :
           /\ tablesMatch(Get(previousFormTables[i], "name"), targetTableName)
           /\ \A j \in 1..(i - 1) :
                ~tablesMatch(Get(previousFormTables[j], "name"), targetTableName)
    ELSE 0

\* every source column of the table's columns, in order
allSourceCols(table) ==
  flatten([c \in 1..Len(table.columns) |->
             IF hasSources(table.columns[c]) THEN table.columns[c].sourceCols ELSE <<>>])

\* the table names written before the dot of the source columns (a Set, in
\* insertion order): solutionTableNames and referencedTables
referencedTables(table) ==
  LET dotted == SelectSeq(allSourceCols(table), LAMBDA sc : includes(sc, "."))
  IN dedupe([i \in 1..Len(dotted) |-> splitDot(dotted[i])[1]])

\* the table a source column is counted for in sourceTableUsage; Null when none
usageTableName(previousFormTables, sourceCol) ==
  IF includes(sourceCol, ".") THEN splitDot(sourceCol)[1]
  ELSE LET owner(t) == /\ Has(t, "columns")
                       /\ \E c \in 1..Len(t.columns) : Get(t.columns[c], "name") = sourceCol
           found == SelectSeq(previousFormTables, owner)
       IN IF found = <<>> THEN Null ELSE Get(found[1], "name")

\* the most referenced table name, the first one among equals; the first
\* previous table's name when nothing is referenced
primaryTableNameOf(table, previousFormTables) ==
  LET all == allSourceCols(table)
      refs == SelectSeq([i \in 1..Len(all) |-> usageTableName(previousFormTables, all[i])],
                        TruthyValue)
      keys == dedupe(refs)
      usage(k) == Cardinality({i \in 1..Len(refs) : refs[i] = k})
      isMax(k) == \A j \in 1..Len(keys) : usage(keys[j]) <= usage(k)
  IN IF keys # <<>> THEN firstWhere(keys, isMax, Null)
     ELSE Get(previousFormTables[1], "name")

\* the keys one previous-table column is stored under unconditionally
columnKeys(prevTable, col, solutionTableNames) ==
  LET tname == Get(prevTable, "name")
      cname == Get(col, "name")
      matching == SelectSeq(solutionTableNames, LAMBDA sn : tablesMatch(tname, sn))
  IN << str(tname) \o "." \o str(cname),
        normalizeNameOrEmpty(tname) \o "." \o normalizeNameOrEmpty(cname) >>
     \o flatten([k \in 1..Len(matching) |->
                   << matching[k] \o "." \o str(cname),
                      normalizeNameOrEmpty(matching[k]) \o "." \o normalizeNameOrEmpty(cname) >>])

\* the set operations on columnDataMap for one column of a previous table
columnOps(prevTable, c, tableData, solutionTableNames) ==
  LET col == prevTable.columns[c]
      columnValues == [r \in 1..Len(tableData) |-> cellAt(tableData[r], c)]
      keys == columnKeys(prevTable, col, solutionTableNames)
  IN [k \in 1..Len(keys) |-> SetOp(keys[k], columnValues)]
     \o << SetIfAbsentOp(Get(col, "name"), columnValues),
           SetIfAbsentOp(normalizeNameOrEmpty(Get(col, "name")), columnValues) >>

\* columnDataMap: the columns of the saved previous tables, in table order;
\* dataOf[i] is the data generated for the i-th previous table
buildColumnDataMap(previousFormTables, dataOf, solutionTableNames) ==
  mapOf(flatten([i \in 1..Len(previousFormTables) |->
          IF isSaved(previousFormTables[i])
            THEN flatten([c \in 1..Len(previousFormTables[i].columns) |->
                            columnOps(previousFormTables[i], c, dataOf[i],
                                      solutionTableNames)])
            ELSE <<>>]))

\* previousTableDataMap: the saved previous tables by id
buildPreviousTableDataMap(previousFormTables, dataOf) ==
  mapOf(flatten([i \in 1..Len(previousFormTables) |->
          IF isSaved(previousFormTables[i])
            THEN << SetOp(Get(previousFormTables[i], "id"),
                          [table |-> previousFormTables[i], data |-> dataOf[i],
                           columnMap |-> columnMapOf(previousFormTables[i])]) >>
            ELSE <<>>]))

\* the cells a lookup visits, in order, as a sequence; a lookup returns the
\* first one it accepts
notNullish(v) == ~IsNullish(v)

\* the cells of the columns of one table whose normalized name is the target
normalizedColumnCells(tableInfo, normalizedTarget, rowIdx) ==
  LET hits == SelectSeq(tableInfo.columnMap,
                        LAMBDA e : normalizeNameOrEmpty(e.key) = normalizedTarget)
  IN IF rowIdx <= Len(tableInfo.data)
       THEN [k \in 1..Len(hits) |-> cellAt(tableInfo.data[rowIdx], hits[k].val)]
       ELSE <<>>

getValueByColumnName(previousTableDataMap, columnName, rowIdx) ==
  IF ~TruthyValue(columnName) THEN ""
  ELSE LET normalizedTarget == normalizeNameOrEmpty(columnName)
           cells == flatten([t \in 1..Len(previousTableDataMap) |->
                      normalizedColumnCells(previousTableDataMap[t].val,
                                            normalizedTarget, rowIdx)])
       IN firstWhere(cells, TruthyValue, "")

\* the cell at rowIdx of a stored column, as a sequence of at most one cell
storedCell(columnDataMap, key, rowIdx) ==
  IF mapHas(columnDataMap, key) /\ rowIdx <= Len(mapGet(columnDataMap, key))
    THEN << mapGet(columnDataMap, key)[rowIdx] >>
    ELSE <<>>

\* the part of getValueFromSource for a "tableName.columnName" source;
\* Undefined when it returns nothing
dottedLookup(ctx, sourceCol, rowIdx) ==
  LET tableName == splitDot2(sourceCol)[1]
      columnName == splitDot2(sourceCol)[2]
      normalizedTableName == normalizeNameOrEmpty(tableName)
      normalizedColumnName == normalizeNameOrEmpty(columnName)
      exact == storedCell(ctx.columnDataMap, sourceCol, rowIdx)
      normalized == storedCell(ctx.columnDataMap,
                               normalizedTableName \o "." \o normalizedColumnName, rowIdx)
      inTable(tableInfo) ==
        IF tablesMatch(Get(tableInfo.table, "name"), tableName)
          THEN (IF mapHas(tableInfo.columnMap, columnName) /\ rowIdx <= Len(tableInfo.data)
                  THEN << cellAt(tableInfo.data[rowIdx], mapGet(tableInfo.columnMap, columnName)) >>
                  ELSE <<>>)
               \o normalizedColumnCells(tableInfo, normalizedColumnName, rowIdx)
          ELSE <<>>
      direct == flatten([t \in 1..Len(ctx.previousTableDataMap) |->
                           inTable(ctx.previousTableDataMap[t].val)])
      keyFits(key) ==
        /\ includes(key, ".")
        /\ normalizeNameOrEmpty(splitDot2(key)[1]) = normalizedTableName
        /\ normalizeNameOrEmpty(splitDot2(key)[2]) = normalizedColumnName
      fallback == flatten([k \in 1..Len(ctx.columnDataMap) |->
                    IF keyFits(ctx.columnDataMap[k].key)
                         /\ rowIdx <= Len(ctx.columnDataMap[k].val)
                      THEN << ctx.columnDataMap[k].val[rowIdx] >>
                      ELSE <<>>])
      cells == exact \o normalized \o direct \o fallback
      alt == getValueByColumnName(ctx.previousTableDataMap, columnName, rowIdx)
  IN IF \E i \in 1..Len(cells) : notNullish(cells[i])
       THEN firstWhere(cells, notNullish, Undefined)
     ELSE IF TruthyValue(alt) THEN alt
     ELSE Undefined

\* the part of getValueFromSource that looks the source up by its whole name
plainLookup(ctx, sourceCol, rowIdx) ==
  LET inRange == rowIdx <= Len(ctx.primaryTableData)
      sameName == SelectSeq(ctx.primaryTableColumnMap,
                            LAMBDA e : normalizeNameOrEmpty(e.key) = normalizeNameOrEmpty(sourceCol))
      looseKeys == SelectSeq(ctx.columnDataMap,
                     LAMBDA e : /\ ~includes(str(e.key), ".")
                                /\ normalizeNameOrEmpty(e.key) = normalizeNameOrEmpty(sourceCol)
                                /\ rowIdx <= Len(e.val))
  IN IF mapHas(ctx.primaryTableColumnMap, sourceCol) /\ inRange
       THEN OrEmpty(cellAt(ctx.primaryTableData[rowIdx],
                           mapGet(ctx.primaryTableColumnMap, sourceCol)))
     ELSE IF sameName # <<>> /\ inRange
       THEN OrEmpty(cellAt(ctx.primaryTableData[rowIdx], sameName[1].val))
     ELSE IF storedCell(ctx.columnDataMap, sourceCol, rowIdx) # <<>>
       THEN OrEmpty(storedCell(ctx.columnDataMap, sourceCol, rowIdx)[1])
     ELSE IF looseKeys # <<>> THEN OrEmpty(looseKeys[1].val[rowIdx])
     ELSE ""

getValueFromSource(ctx, sourceCol, rowIdx) ==
  IF ~TruthyValue(sourceCol) THEN ""
  ELSE IF includes(sourceCol, ".") /\ dottedLookup(ctx, sourceCol, rowIdx) # Undefined
    THEN dottedLookup(ctx, sourceCol, rowIdx)
  ELSE plainLookup(ctx, sourceCol, rowIdx)

\* the value of one output cell
cellValue(ctx, col, rowIdx) ==
  LET tries == [k \in 1..Len(col.sourceCols) |->
                  getValueFromSource(ctx, col.sourceCols[k], rowIdx)]
      fromSources == firstWhere(tries, TruthyValue, "")
      byOwnName == getValueByColumnName(ctx.previousTableDataMap, Get(col, "name"), rowIdx)
      plainName(sourceCol) ==
        IF includes(sourceCol, ".")
          THEN splitDot(sourceCol)[Len(splitDot(sourceCol))] ELSE sourceCol
      byPlainNames == [k \in 1..Len(col.sourceCols) |->
                         getValueByColumnName(ctx.previousTableDataMap,
                                              plainName(col.sourceCols[k]), rowIdx)]
  IN IF ~hasSources(col) THEN ""
     ELSE IF Get(col, "mappingType") = "direct" THEN fromSources
     ELSE IF Get(col, "mappingType") \in {"consolidate", "metadata"}
       THEN IF TruthyValue(fromSources) THEN fromSources
            ELSE IF TruthyValue(byOwnName) THEN byOwnName
            ELSE firstWhere(byPlainNames, TruthyValue, "")
     ELSE ""

\* the indices of the columns of a type, in order
columnIndices(table, type) ==
  SelectSeq([i \in 1..Len(table.columns) |-> i],
            LAMBDA i : Get(table.columns[i], "type") = type)

\* the key columns of the final de-duplication: FK then PK columns, or none
keyColumnIndices(table) ==
  IF columnIndices(table, "PK") = <<>> THEN <<>>
  ELSE IF columnIndices(table, "FK") # <<>>
    THEN columnIndices(table, "FK") \o columnIndices(table, "PK")
  ELSE columnIndices(table, "PK")

\* a key that is always the whole row
fullRowKey(table, row) == jsonKey(row)

\* the key of a row: its key cells, or the whole row for a table without a PK
rowKey(table, row) ==
  IF keyColumnIndices(table) = <<>> THEN jsonKey(row)
  ELSE jsonKey([k \in 1..Len(keyColumnIndices(table)) |-> cellAt(row, keyColumnIndices(table)[k])])

RECURSIVE generateTableData(_, _, _, _)

\* the data of a previous-form table taken from the raw data at every stage
previousTableResultFromRaw(prevTable, rawData, previousPreviousFormTables) ==
  generateTableDataFromRaw(prevTable, rawData)

\* the data of a previous-form table: from the form before it when there is
\* one, from the raw data otherwise
previousTableResult(prevTable, rawData, previousPreviousFormTables) ==
  IF previousPreviousFormTables # <<>>
    THEN generateTableData(prevTable, rawData, previousPreviousFormTables, <<>>)
    ELSE generateTableDataFromRaw(prevTable, rawData)

\* prevTable.columns.some(...) is reached for a previous table without a
\* columns list before a table that owns the source column is found
ownerSearchThrows(previousFormTables, sourceCol) ==
  \E j \in 1..Len(previousFormTables) :
    /\ ~Has(previousFormTables[j], "columns")
    /\ \A k \in 1..(j - 1) : Has(previousFormTables[k], "columns")
    /\ \A k \in 1..(j - 1) :
         ~\E c \in 1..Len(previousFormTables[k].columns) :
            Get(previousFormTables[k].columns[c], "name") = sourceCol

\* generateTableDataFromPreviousForm raises a TypeError
previousFormThrows(table, previousFormTables, rawData, previousPreviousFormTables) ==
  \/ \E i \in 1..Len(previousFormTables) :
       /\ isSaved(previousFormTables[i])
       /\ ~IsNullData(rawData)
       /\ \/ previousTableResult(previousFormTables[i], rawData,
                                 previousPreviousFormTables).kind = "TypeError"
          \/ ~Has(previousFormTables[i], "columns")
  \/ \E k \in 1..Len(allSourceCols(table)) :
       /\ ~includes(allSourceCols(table)[k], ".")
       /\ ownerSearchThrows(previousFormTables, allSourceCols(table)[k])

\* the table whose rows drive the output: the single referenced table when it
\* is found and saved, the primary table otherwise
iterationTable(table, previousFormTables, primary) ==
  IF Len(referencedTables(table)) = 1
    THEN With(findMatchingTable(previousFormTables, referencedTables(table)[1]),
              LAMBDA target :
                IF target # 0 /\ isSaved(previousFormTables[target]) THEN target ELSE primary)
    ELSE primary

\* the output rows, one per row of the iteration table; dataOf[i] is the data
\* generated for the i-th previous table
rowsOver(table, previousFormTables, dataOf, primary, source) ==
  With([columnDataMap |->
          buildColumnDataMap(previousFormTables, dataOf, referencedTables(table)),
        previousTableDataMap |-> buildPreviousTableDataMap(previousFormTables, dataOf),
        primaryTableColumnMap |-> columnMapOf(previousFormTables[primary]),
        primaryTableData |-> dataOf[primary]],
       LAMBDA ctx :
         [rowIdx \in 1..Len(dataOf[source]) |->
            [c \in 1..Len(table.columns) |-> cellValue(ctx, table.columns[c], rowIdx)]])

\* the rows before the final de-duplication
previousFormRows(table, previousFormTables, rawData, previousPreviousFormTables) ==
  With(findMatchingTable(previousFormTables, primaryTableNameOf(table, previousFormTables)),
       LAMBDA primary :
         IF primary = 0 \/ ~isSaved(previousFormTables[primary]) \/ IsNullData(rawData)
           THEN <<>>
           ELSE With([i \in 1..Len(previousFormTables) |->
                        IF isSaved(previousFormTables[i])
                          THEN previousTableResult(previousFormTables[i], rawData,
                                                   previousPreviousFormTables).rows
                          ELSE <<>>],
                     LAMBDA dataOf :
                       rowsOver(table, previousFormTables, dataOf, primary,
                                iterationTable(table, previousFormTables, primary))))

generateTableDataFromPreviousForm(table, previousFormTables, rawData, previousPreviousFormTables) ==
  IF ~Has(table, "columns") \/ table.columns = <<>> THEN Rows(<<>>)
  ELSE IF previousFormThrows(table, previousFormTables, rawData, previousPreviousFormTables)
    THEN Raised
  ELSE Rows(uniqueByKey(previousFormRows(table, previousFormTables, rawData,
                                         previousPreviousFormTables),
                        LAMBDA row : rowKey(table, row)))

generateTableData(table, rawData, previousFormTables, previousPreviousFormTables) ==
  IF previousFormTables # <<>>
    THEN generateTableDataFromPreviousForm(table, previousFormTables, rawData,
                                           previousPreviousFormTables)
    ELSE generateTableDataFromRaw(table, rawData)

\* the arguments of generateTableData after the call: it pushes to the rows it
\* builds and sets entries of its own Maps and Sets, so the table, the raw
\* dataset and the upstream tables are as they were
argumentsAfterGenerateTableData(table, rawData, previousFormTables, previousPreviousFormTables) ==
  [table |-> table, rawData |-> rawData, previousFormTables |-> previousFormTables,
   previousPreviousFormTables |-> previousPreviousFormTables]

\* the source columns that the columns of the tables name, each once, in the
\* order in which the Set of getMappedColumns receives them
getMappedColumns(tables) ==
  dedupe(flatten([t \in 1..Len(tables) |->
                    IF Has(tables[t], "columns")
                      THEN flatten([c \in 1..Len(tables[t].columns) |->
                                      IF Has(tables[t].columns[c], "sourceCols")
                                        THEN tables[t].columns[c].sourceCols ELSE <<>>])
                      ELSE <<>>]))

\* sourceColumns of getMappingStats
sourceColumnsOf(rawColumns, previousFormTables) ==
  IF previousFormTables # <<>>
    THEN flatten([t \in 1..Len(previousFormTables) |->
                    [c \in 1..Len(previousFormTables[t].columns) |->
                       str(Get(previousFormTables[t], "name")) \o "."
                         \o str(Get(previousFormTables[t].columns[c], "name"))]])
    ELSE IF rawColumns = Null THEN <<>> ELSE rawColumns

\* Math.round(numerator / denominator * 100) for a positive denominator
roundedPercentage(numerator, denominator) ==
  (200 * numerator + denominator) \div (2 * denominator)

\* the statistics of getMappingStats from the mapped names and the source columns
mappingStatsOf(mapped, sourceColumns) ==
  [kind |-> "stats",
   total |-> Len(sourceColumns),
   mapped |-> Len(mapped),
   unmapped |-> Len(sourceColumns) - Len(mapped),
   percentage |-> IF Len(sourceColumns) > 0
                    THEN roundedPercentage(Len(mapped), Len(sourceColumns)) ELSE 0,
   mappedColumns |-> mapped,
   unmappedColumns |->
     SelectSeq(sourceColumns, LAMBDA col : \A k \in 1..Len(mapped) : mapped[k] # col)]

\* the value of getMappingStats: the statistics, or the exception of
\* prevTable.columns.forEach for a previous-form table without columns
getMappingStats(tables, rawColumns, previousFormTables) ==
  IF \E t \in 1..Len(previousFormTables) : ~Has(previousFormTables[t], "columns")
    THEN [kind |-> "TypeError"]
    ELSE mappingStatsOf(getMappedColumns(tables),
                        sourceColumnsOf(rawColumns, previousFormTables))

(***************************************************************************)
(* The validation session: a dataset's solution for the current form, the  *)
(* user's tables as the table builder edits them, and the report of one    *)
(* validateSolution call on them.                                          *)
(***************************************************************************)
VARIABLES solutionTables, userTables, validationResult, edits,
          table, rawData, previousFormTables, previousPreviousFormTables, previewData,
          previewBefore,
          userCol, solutionCol, mappingValidation,
          tableName1, tableName2, nameMatches,
          targetColName, columnsToSearch, matchingColumn,
          tablesWithData,
          selectedDataset, currentForm, progress, lastView, work,
          mappingStats

vvars == <<solutionTables, userTables, validationResult, edits>>
\* previewBefore is the preview that the latest generation replaced
gvars == <<table, rawData, previousFormTables, previousPreviousFormTables, previewData,
           previewBefore>>
\* the arguments and the result of one validateColumnMapping call
mvars == <<userCol, solutionCol, mappingValidation>>
\* two table names and the answers of the table-name tests for them
nvars == <<tableName1, tableName2, nameMatches>>
\* a target column name, the columns searched and what findMatchingColumn finds
cvars == <<targetColName, columnsToSearch, matchingColumn>>
\* the previews PreviousFormTablesView renders for the previous-form tables
pvars == <<tablesWithData>>
\* the session of the application: the selected dataset, the current form and
\* the localStorage items normalizationProgress, lastView and normalizationWork
avars == <<selectedDataset, currentForm, progress, lastView, work>>
\* the result of one getMappingStats call
svars == <<mappingStats>>
vars == <<vvars, gvars, mvars, nvars, cvars, pvars, avars, svars>>

\* the number of table-builder edits of one session
MaxEdits == 1

Col(n, t) == [name |-> n, type |-> t]
MappedCol(n, t, m, src) == [name |-> n, type |-> t, mappingType |-> m, sourceCols |-> src]
Table(n, cols) == [name |-> n, columns |-> cols]

\* the solutions of the datasets of the session
CharterSolution ==
  <<Table("FLIGHT_DETAILS", <<Col("CHAR_TRIP", "PK"), Col("CHAR_DATE", "attribute")>>),
    Table("FLIGHT_CREW", <<Col("CHAR_TRIP", "PK"), Col("CREW_ID", "PK")>>)>>
CrewSolution ==
  <<Table("CREW_MEMBER",
          <<Col("CREW_ID", "PK"), Col("CHAR_TRIP", "FK"), Col("CREW_NAME", "attribute")>>)>>
ProjectSolution ==
  <<Table("PROJECT", <<Col("PROJ_NUM", "PK"), Col("PROJECT_BUDGET", "attribute")>>)>>
OrderSolution ==
  <<Table("ORDER_LINE",
          <<Col("ORDER_NUM", "PK"), Col("ORDER_LINE_NUM", "PK"), Col("QTY", "attribute")>>)>>
SkillSolution ==
  <<Table("EMPLOYEE_SKILL",
          <<MappedCol("ID", "PK", "direct", <<"ID">>),
            MappedCol("SKILL", "attribute", "consolidate", <<"SKILL1", "SKILL2">>)>>)>>
\* an uploaded dataset whose table definition has no name
NamelessSolution ==
  <<[columns |-> <<Col("ID", "PK")>>]>>

\* a form for which the dataset lists no table
EmptySolution == <<>>

SolutionSets ==
  {CharterSolution, CrewSolution, ProjectSolution, OrderSolution, SkillSolution,
   NamelessSolution, EmptySolution}

\* what the user types or picks in the table builder
TableNamePool == {"FLIGHT", "CREW", "Project Details"}
ColumnPool == {Col("PROJECT", "attribute"), Col("NOTES", "PK"), Col("NOTES", "FK")}
TypePool == {"PK", "FK", "attribute", "pk"}

NoResult ==
  [kind |-> "none", isValid |-> FALSE, errors |-> <<>>, warnings |-> <<>>,
   tableDetails |-> <<>>]

\* onGenerateTables of App.jsx: the solution's tables in user table format
generatedColumn(col) ==
  [f \in (DOMAIN col) \cup {"sourceCols"} |->
     IF f = "sourceCols" /\ ~Has(col, "sourceCols") THEN <<>> ELSE col[f]]
generatedTable(solTable) ==
  [f \in (DOMAIN solTable) \cup {"saved"} |->
     IF f = "saved" THEN FALSE
     ELSE IF f = "columns"
       THEN [i \in 1..Len(solTable.columns) |-> generatedColumn(solTable.columns[i])]
     ELSE solTable[f]]

newTables(tables) == [i \in 1..Len(tables) |-> generatedTable(tables[i])]

RemoveAt(seq, i) == SubSeq(seq, 1, i - 1) \o SubSeq(seq, i + 1, Len(seq))

Editing == validationResult.kind = "none" /\ edits < MaxEdits

\* loadTablesForForm of App.jsx: the tables of the user's earlier work on the
\* dataset, none when there is no earlier work
SavedWork(solution) ==
  {<<>>} \cup
  (IF solution = ProjectSolution
     THEN {<<[name |-> "PROJECT", saved |-> TRUE,
              columns |-> <<Col("PROJ_NUM", "PK"), Col("BUDGET", "attribute")>>]>>}
     ELSE {})

\* no preview is generated in a validation session
NoPreview == [kind |-> "none", rows |-> <<>>]
NoGeneration ==
  /\ table = [columns |-> <<>>]
  /\ rawData = NullData
  /\ previousFormTables = <<>>
  /\ previousPreviousFormTables = <<>>
  /\ previewData = NoPreview
  /\ previewBefore = NoPreview

\* no column mapping is validated on its own in a session or a preview
NoColumn == [name |-> ""]
NoValidation == [kind |-> "none", valid |-> FALSE, error |-> ""]
NoMapping ==
  /\ userCol = NoColumn
  /\ solutionCol = NoColumn
  /\ mappingValidation = NoValidation

\* no pair of names is tested on its own
NoAnswers == [kind |-> "none"]
NoNames ==
  /\ tableName1 = ""
  /\ tableName2 = ""
  /\ nameMatches = NoAnswers

\* no column is searched for on its own
NotSearched == [kind |-> "none", index |-> 0]
NoSearch ==
  /\ targetColName = ""
  /\ columnsToSearch = <<>>
  /\ matchingColumn = NotSearched

\* const NORMALIZATION_FORMS = ['1NF', '2NF', '3NF']
NORMALIZATION_FORMS == <<"1NF", "2NF", "3NF">>
Forms == {"1NF", "2NF", "3NF"}
\* the ids of the datasets that loadAllDatasets returns
DatasetIds == {"flight-charter", "project"}
\* selectedDataset = null
NoDataset == "null"
\* the localStorage items when nothing is stored
NoProgress == [d \in DatasetIds |-> {}]
NoLastView == [datasetId |-> NoDataset, form |-> ""]
NoWork == [d \in DatasetIds |-> [f \in Forms |-> <<>>]]
\* the application before a dataset is selected, with an empty localStorage
NoSession ==
  /\ selectedDataset = NoDataset
  /\ currentForm = "1NF"
  /\ progress = NoProgress
  /\ lastView = NoLastView
  /\ work = NoWork

\* getMappingStats was not called
NoStats == mappingStats = [kind |-> "none"]

\* the previous-form tables are not rendered
NotRendered == [kind |-> "none", previews |-> <<>>]
NoRendering == tablesWithData = NotRendered

InitV ==
  /\ solutionTables \in SolutionSets
  /\ userTables \in SavedWork(solutionTables)
  /\ validationResult = NoResult
  /\ edits = 0
  /\ NoGeneration
  /\ NoMapping
  /\ NoNames
  /\ NoSearch
  /\ NoRendering
  /\ NoSession
  /\ NoStats

onGenerateTables ==
  /\ validationResult.kind = "none"
  /\ edits = 0
  /\ \A i \in 1..Len(solutionTables) : Has(solutionTables[i], "columns")
  /\ userTables' = newTables(solutionTables)
  /\ UNCHANGED <<solutionTables, validationResult, edits, gvars, mvars, nvars, cvars, pvars, avars, svars>>

addTable ==
  /\ Editing
  /\ userTables' = Append(userTables,
                          [name |-> "TABLE_" \o ToString(Len(userTables) + 1),
                           saved |-> FALSE, columns |-> <<>>])
  /\ edits' = edits + 1
  /\ UNCHANGED <<solutionTables, validationResult, gvars, mvars, nvars, cvars, pvars, avars, svars>>

removeTable ==
  /\ Editing
  /\ \E i \in 1..Len(userTables) : userTables' = RemoveAt(userTables, i)
  /\ edits' = edits + 1
  /\ UNCHANGED <<solutionTables, validationResult, gvars, mvars, nvars, cvars, pvars, avars, svars>>

updateTableName ==
  /\ Editing
  /\ \E i \in 1..Len(userTables) : \E newName \in TableNamePool :
       userTables' = [userTables EXCEPT ![i] =
                        [f \in (DOMAIN @) \cup {"name"} |-> IF f = "name" THEN newName ELSE @[f]]]
  /\ edits' = edits + 1
  /\ UNCHANGED <<solutionTables, validationResult, gvars, mvars, nvars, cvars, pvars, avars, svars>>

\* handleAddColumn with editingColumnIndex = null: the new column is appended
handleAddColumn ==
  /\ Editing
  /\ \E i \in 1..Len(userTables) : \E newColumn \in ColumnPool :
       userTables' = [userTables EXCEPT ![i].columns = Append(@, newColumn)]
  /\ edits' = edits + 1
  /\ UNCHANGED <<solutionTables, validationResult, gvars, mvars, nvars, cvars, pvars, avars, svars>>

\* handleAddColumn with editingColumnIndex set: the column is replaced by the
\* dialog's column, a column of the pool or the same column with another type
handleUpdateColumn ==
  /\ Editing
  /\ \E i \in 1..Len(userTables) : \E j \in 1..Len(userTables[i].columns) :
       \E newColumn \in ColumnPool \cup
            {[f \in (DOMAIN userTables[i].columns[j]) \cup {"type"} |->
                IF f = "type" THEN t ELSE userTables[i].columns[j][f]] : t \in TypePool} :
         userTables' = [userTables EXCEPT ![i].columns[j] = newColumn]
  /\ edits' = edits + 1
  /\ UNCHANGED <<solutionTables, validationResult, gvars, mvars, nvars, cvars, pvars, avars, svars>>

removeColumn ==
  /\ Editing
  /\ \E i \in 1..Len(userTables) : \E j \in 1..Len(userTables[i].columns) :
       userTables' = [userTables EXCEPT ![i].columns = RemoveAt(@, j)]
  /\ edits' = edits + 1
  /\ UNCHANGED <<solutionTables, validationResult, gvars, mvars, nvars, cvars, pvars, avars, svars>>

\* { ...t, saved: value }
withSaved(t, value) ==
  [f \in (DOMAIN t) \cup {"saved"} |-> IF f = "saved" THEN value ELSE t[f]]

\* the preview that handleSaveTable asks for is not generated in a validation
\* session, which has no raw data and no previous-form tables
handleSaveTable ==
  /\ validationResult.kind = "none"
  /\ \E i \in 1..Len(userTables) :
       /\ ~isSaved(userTables[i])
       /\ userTables' = [userTables EXCEPT ![i] = withSaved(@, TRUE)]
  /\ UNCHANGED <<solutionTables, validationResult, edits, gvars, mvars, nvars, cvars, pvars, avars, svars>>

handleEditTable ==
  /\ validationResult.kind = "none"
  /\ \E i \in 1..Len(userTables) :
       /\ isSaved(userTables[i])
       /\ userTables' = [userTables EXCEPT ![i] = withSaved(@, FALSE)]
  /\ UNCHANGED <<solutionTables, validationResult, edits, gvars, mvars, nvars, cvars, pvars, avars, svars>>

unsavedTables(tables) == SelectSeq(tables, LAMBDA t : ~isSaved(t))

\* the result handleCheckAnswer sets when a table is not saved
saveFirstResult(tables) ==
  [kind |-> "report", isValid |-> FALSE,
   errors |-> <<"Please save all tables before checking your answer. "
                  \o ToString(Len(unsavedTables(tables)))
                  \o " table(s) need to be saved.">>,
   warnings |-> <<>>, tableDetails |-> <<>>]

\* handleCheckAnswer of App.jsx: validateSolution(userTables, solution.tables)
\* once every table is saved
handleCheckAnswer ==
  /\ validationResult.kind = "none"
  /\ validationResult' = IF unsavedTables(userTables) # <<>>
                            THEN saveFirstResult(userTables)
                            ELSE validateSolution(userTables, solutionTables)
  /\ userTables' = IF unsavedTables(userTables) # <<>> THEN userTables
                    ELSE argumentsAfterValidateSolution(userTables, solutionTables).userTables
  /\ solutionTables' = IF unsavedTables(userTables) # <<>> THEN solutionTables
                        ELSE argumentsAfterValidateSolution(userTables,
                                                            solutionTables).solutionTables
  /\ UNCHANGED <<edits, gvars, mvars, nvars, cvars, pvars, avars, svars>>

NextV ==
  \/ onGenerateTables
  \/ addTable
  \/ removeTable
  \/ updateTableName
  \/ handleAddColumn
  \/ handleUpdateColumn
  \/ removeColumn
  \/ handleSaveTable
  \/ handleEditTable
  \/ handleCheckAnswer

Spec == InitV /\ [][NextV]_vars

(***************************************************************************)
(* Properties of the validation session.                                   *)
(***************************************************************************)
\* validateSolution was applied to the user's tables, which are all saved
Validated == validationResult.kind # "none" /\ unsavedTables(userTables) = <<>>
Reported == Validated /\ validationResult.kind = "report"
AllNamed(tables) == \A i \in 1..Len(tables) : Has(tables[i], "name")

\* the structural copy of the solution, every table saved
SolutionCopy ==
  [i \in 1..Len(solutionTables) |-> withSaved(generatedTable(solutionTables[i]), TRUE)]
IsCopy == userTables = SolutionCopy

\* C1 (validator soundness): when the user's tables are a structural copy of a
\* non-empty solution whose tables are all named, validateSolution returns a
\* report with isValid = true and no errors.
C1_ValidatorSoundness ==
  (Validated /\ solutionTables # <<>> /\ AllNamed(solutionTables) /\ IsCopy)
    => (Reported /\ validationResult.isValid /\ validationResult.errors = <<>>)

\* a copy of a solution of two tables with a common name word was validated
C1_CopyValidated ==
  /\ Reported
  /\ solutionTables = CharterSolution
  /\ IsCopy
  /\ validationResult.isValid

\* the copy of the solution with column j of table i left out
CopyWithout(i, j) ==
  [SolutionCopy EXCEPT ![i].columns = RemoveAt(@, j)]

\* C2 (missing key detection): when the user's tables are the solution except
\* that one table omits a column the solution declares as PK, validateSolution
\* returns isValid = false and an error that mentions the omitted column.
C2_MissingKeyDetected ==
  (Validated /\ AllNamed(solutionTables))
    => \A i \in 1..Len(solutionTables) : \A j \in 1..Len(solutionTables[i].columns) :
         (solutionTables[i].columns[j].type = "PK" /\ userTables = CopyWithout(i, j))
           => /\ Reported
              /\ ~validationResult.isValid
              /\ \E e \in 1..Len(validationResult.errors) :
                   includes(validationResult.errors[e], solutionTables[i].columns[j].name)

\* the copy of the solution with table i renamed
CopyRenamed(i, newName) ==
  [SolutionCopy EXCEPT ![i].name = newName]

\* one name contains the other after normalization, and they differ
ContainedName(name1, name2) ==
  /\ normalizeName(name1) # normalizeName(name2)
  /\ \/ includes(normalizeName(name1), normalizeName(name2))
     \/ includes(normalizeName(name2), normalizeName(name1))

\* C5 (naming tolerance): when a user table has the columns of a solution table
\* and its name differs from the solution table's name only by containment, in
\* either direction, validateSolution reports no error and isValid = true.
C5_NamingTolerance ==
  (Validated /\ AllNamed(solutionTables))
    => \A i \in 1..Len(solutionTables) : \A newName \in TableNamePool :
         (ContainedName(newName, solutionTables[i].name)
            /\ userTables = CopyRenamed(i, newName))
           => (Reported /\ validationResult.isValid /\ validationResult.errors = <<>>)

\* a table renamed to a part of the solution's name, and one renamed to a name
\* that contains the solution's name, were validated
C5_RenamedValidated ==
  /\ Reported
  /\ \/ solutionTables = CrewSolution /\ userTables = CopyRenamed(1, "CREW")
     \/ solutionTables = ProjectSolution /\ userTables = CopyRenamed(1, "Project Details")

\* C6 (table count): validateSolution returns isValid = false whenever the
\* number of user tables differs from the number of solution tables.
C6_TableCountChecked ==
  (Reported /\ Len(userTables) # Len(solutionTables)) => ~validationResult.isValid

\* the solution tables whose name satisfies tablesMatch with a name, by index
tablesMatchSet(tableName) ==
  SelectSeq([k \in 1..Len(solutionTables) |-> k],
            LAMBDA k : tablesMatchByName(tableName, solutionTables[k].name))

\* C7 (table candidates): for each user table the candidates of validateSolution
\* are exactly the solution tables whose name satisfies tablesMatch with the user
\* table's name, and a user table with no such solution table gets the error
\* that it does not match any solution table and makes isValid false.
C7_TableCandidates ==
  (Validated /\ AllNamed(solutionTables))
    => \A i \in 1..Len(userTables) :
         /\ findMatchingTables(userTables[i], solutionTables)
              = tablesMatchSet(userTables[i].name)
         /\ tablesMatchSet(userTables[i].name) = <<>>
              => /\ Reported
                 /\ ~validationResult.isValid
                 /\ \E e \in 1..Len(validationResult.errors) :
                      validationResult.errors[e]
                        = "Table \"" \o userTables[i].name
                            \o "\" doesn't match any solution table"

\* the user's tables without the last column of table i
WithoutLastColumn(i) ==
  [userTables EXCEPT ![i].columns = SubSeq(@, 1, Len(@) - 1)]

\* a column whose name matches no column of any solution table
MatchesNoSolutionColumn(c) ==
  \A k \in 1..Len(solutionTables) : findMatchingColumn(c.name, solutionTables[k].columns) = 0

\* C8 (extra columns): when a column of any type that matches no solution column
\* is added to a user table that validates with no errors, validateSolution
\* still returns no errors and isValid = true.
C8_ExtraColumnsNeverErrors ==
  (Validated /\ AllNamed(solutionTables))
    => \A i \in 1..Len(userTables) : \A c \in ColumnPool :
         (/\ userTables[i].columns # <<>>
          /\ userTables[i].columns[Len(userTables[i].columns)] = c
          /\ MatchesNoSolutionColumn(c)
          /\ validateSolution(WithoutLastColumn(i), solutionTables).isValid
          /\ validateSolution(WithoutLastColumn(i), solutionTables).errors = <<>>)
           => (Reported /\ validationResult.isValid /\ validationResult.errors = <<>>)

\* C9 (no exceptions): validateSolution returns a report and generateTableData
\* returns a row sequence, whatever the table definitions are.
C9_NeverThrows ==
  /\ validationResult.kind \in {"none", "report"}
  /\ previewData.kind \in {"none", "rows"}

\* the copy of the solution with the type of column j of table i replaced
CopyRetyped(i, j, type) ==
  [SolutionCopy EXCEPT ![i].columns[j].type = type]

\* the errors of validateTable for user table i against solution table i
tableErrors(i) == validateTable(userTables[i], solutionTables[i]).errors

RoleError(col) ==
  "Column " \o col.name \o " should be a "
    \o (IF col.type = "PK" THEN "Primary Key (PK)" ELSE "Foreign Key (FK)")

ReportedMissing(j) ==
  \E e \in 1..Len(validationResult.errors) :
    validationResult.errors[e] = "Missing table: " \o solutionTables[j].name

\* a user table whose name matches the name of solution table j and that
\* validates against it with at most two errors
HasCloseUserTable(j) ==
  \E i \in 1..Len(userTables) :
    /\ tablesMatchByName(userTables[i].name, solutionTables[j].name)
    /\ Len(validateTable(userTables[i], solutionTables[j]).errors) <= MissingTableTolerance

\* C11 (missing-table rule): a solution table is reported with a "Missing table"
\* error, and isValid is false, exactly when no user table both matches its name
\* and validates against it with at most 2 errors.
C11_MissingTableRule ==
  (Reported /\ userTables # <<>> /\ AllNamed(solutionTables))
    => \A j \in 1..Len(solutionTables) :
         /\ ReportedMissing(j) <=> ~HasCloseUserTable(j)
         /\ ReportedMissing(j) => ~validationResult.isValid

\* the validation selected for some user table produced an error
SomeTableHasErrors ==
  \E i \in 1..Len(validationResult.tableDetails) :
    validationResult.tableDetails[i].errors # <<>>

\* some user table has no candidate among the solution tables
SomeUserTableUnmatched ==
  \E i \in 1..Len(userTables) : findMatchingTables(userTables[i], solutionTables) = <<>>

HasCorrectUserTable(j) ==
  \E i \in 1..Len(userTables) :
    /\ tablesMatchByName(userTables[i].name, solutionTables[j].name)
    /\ validateTable(userTables[i], solutionTables[j]).errors = <<>>

\* C28 (full coverage on success): whenever validateSolution returns
\* isValid = true, every solution table has a user table that matches its name
\* and validates against it with zero errors.
C28_FullCoverageOnSuccess ==
  (Reported /\ validationResult.isValid /\ AllNamed(solutionTables))
    => \A j \in 1..Len(solutionTables) : HasCorrectUserTable(j)

\* C27 (verdict and error list agree) as claimed: validateSolution returns
\* isValid = true exactly when the errors list it returns is empty.
C27_VerdictAndErrorsAgree ==
  Reported => (validationResult.isValid <=> validationResult.errors = <<>>)

\* C27 (verdict and error list agree), amended: a non-empty errors list comes
\* with isValid = false, and isValid is true exactly when the errors list is
\* empty and no entry of tableDetails holds an error.
C27_VerdictAndErrorsOrDetails ==
  Reported =>
    /\ validationResult.errors # <<>> => ~validationResult.isValid
    /\ validationResult.isValid
         <=> (validationResult.errors = <<>> /\ ~SomeTableHasErrors)

\* a table with one wrong role was validated: the verdict is false, the errors
\* list is empty and the error is in the table's details
C27_ColumnErrorOnlyInDetails ==
  /\ Reported
  /\ solutionTables = CrewSolution
  /\ userTables = CopyRetyped(1, 2, "attribute")
  /\ ~validationResult.isValid
  /\ validationResult.errors = <<>>
  /\ SomeTableHasErrors

MaxRows == 2

RawColumns == <<"ID", "NAME", "SKILL1", "SKILL2">>
ScenarioARow == <<"1", "Ann", "Plumbing", "Welding">>
ScenarioBRow == <<"1", "Ann", "Plumbing", " ">>
RawRowPool ==
  { ScenarioARow, ScenarioBRow,
    <<"1", "Ann", "Plumbing", "Plumbing">>,
    <<"2", "Bob", "Welding", Null>>,
    <<"2", "Bob", "">> }

RawDataSets ==
  {NullData} \cup
  {[columns |-> RawColumns, rows |-> rows] :
     rows \in UNION {[1..n -> RawRowPool] : n \in 1..MaxRows}}

SavedTable(i, n, cols) == [id |-> i, name |-> n, saved |-> TRUE, columns |-> cols]

\* first-form tables over the raw columns
EmployeeSkill ==
  SavedTable(1, "EMPLOYEE_SKILL",
             << MappedCol("ID", "PK", "direct", <<"ID">>),
                MappedCol("SKILL", "attribute", "consolidate", <<"SKILL1", "SKILL2">>) >>)
Employee ==
  SavedTable(2, "EMPLOYEE",
             << MappedCol("ID", "PK", "direct", <<"ID">>),
                MappedCol("NAME", "attribute", "direct", <<"NAME">>) >>)
SkillSlot ==
  SavedTable(3, "SKILL_SLOT",
             << MappedCol("ID", "FK", "direct", <<"ID">>),
                MappedCol("SKILL", "PK", "consolidate", <<"SKILL1", "SKILL2">>),
                MappedCol("SLOT", "attribute", "metadata", <<"SKILL1", "SKILL2">>) >>)
SkillOnly ==
  SavedTable(4, "SKILL",
             << MappedCol("SKILL", "attribute", "consolidate", <<"SKILL1", "SKILL2">>) >>)
\* table definitions that lack a part
NoColumnsTable == [id |-> 5, name |-> "EMPTY", saved |-> TRUE]
NoNameTable ==
  [id |-> 6, saved |-> TRUE,
   columns |-> << MappedCol("ID", "PK", "direct", <<"ID">>) >>]
UnmappedTable ==
  SavedTable(7, "UNMAPPED",
             << Col("ID", "PK"),
                MappedCol("SKILL", "attribute", "consolidate", <<"SKILL9", "SKILL2">>) >>)
UnsavedEmployeeSkill == [EmployeeSkill EXCEPT !.saved = FALSE]
\* a table without a consolidate column: a source that is no raw column, a
\* metadata column and a column without a mapping
Contact ==
  SavedTable(8, "CONTACT",
             << MappedCol("ID", "PK", "direct", <<"ID">>),
                MappedCol("PHONE", "attribute", "direct", <<"PHONE">>),
                MappedCol("SLOT", "attribute", "metadata", <<"SKILL1">>),
                Col("NOTE", "attribute") >>)

Stage1Tables ==
  { EmployeeSkill, Employee, SkillSlot, SkillOnly,
    NoColumnsTable, NoNameTable, UnmappedTable, Contact }

\* second-form tables over the first-form tables
EmployeeOfSkill ==
  SavedTable(11, "EMPLOYEE",
             << MappedCol("ID", "PK", "direct", <<"EMPLOYEE_SKILL.ID">>),
                MappedCol("SKILL", "attribute", "direct", <<"EMPLOYEE_SKILL.SKILL">>) >>)
Assignment ==
  SavedTable(12, "ASSIGNMENT",
             << MappedCol("ID", "FK", "direct", <<"EMPLOYEE_SKILL.ID">>),
                MappedCol("SKILL", "PK", "consolidate", <<"EMPLOYEE_SKILL.SKILL">>) >>)
Person ==
  SavedTable(13, "PERSON",
             << MappedCol("ID", "PK", "direct", <<"EMPLOYEE.ID">>),
                MappedCol("NAME", "attribute", "direct", <<"Employee.name", "NAME">>) >>)
Roster ==
  SavedTable(14, "ROSTER",
             << MappedCol("ID", "PK", "direct", <<"ID">>),
                MappedCol("NAME", "attribute", "direct", <<"NAME">>),
                MappedCol("SKILL", "attribute", "direct", <<"SKILL.SKILL">>) >>)
Stage2Tables == { EmployeeOfSkill, Assignment, Person, Roster, NoColumnsTable }

Stage1Saved ==
  { <<EmployeeSkill>>, <<Employee, EmployeeSkill>>,
    <<UnsavedEmployeeSkill>>, <<NoColumnsTable, Employee>>,
    <<Employee, UnsavedEmployeeSkill>>, <<UnsavedEmployeeSkill, Employee>> }

\* third-form tables over the second-form tables
SkillList ==
  SavedTable(21, "SKILL_LIST",
             << MappedCol("SKILL", "PK", "direct", <<"ASSIGNMENT.SKILL">>) >>)
Staff ==
  SavedTable(22, "STAFF",
             << MappedCol("ID", "PK", "direct", <<"EMPLOYEE.ID">>),
                MappedCol("SKILL", "attribute", "direct", <<"EMPLOYEE.SKILL">>) >>)
Stage3Tables == { SkillList, Staff }
Stage2Saved == { <<Assignment>>, <<EmployeeOfSkill, Assignment>> }

\* the inputs of one preview: the table and the tables of the forms before it
PreviewInputs ==
  {<<t, <<>>, <<>> >> : t \in Stage1Tables}
  \cup (Stage2Tables \X Stage1Saved \X {<<>>})
  \cup (Stage3Tables \X Stage2Saved \X {<<EmployeeSkill>>})

InitG ==
  /\ \E in \in PreviewInputs :
       /\ table = in[1]
       /\ previousFormTables = in[2]
       /\ previousPreviousFormTables = in[3]
  /\ rawData \in RawDataSets
  /\ previewData = NoPreview
  /\ previewBefore = NoPreview
  /\ solutionTables = <<>>
  /\ userTables = <<>>
  /\ validationResult = NoResult
  /\ edits = 0
  /\ NoMapping
  /\ NoNames
  /\ NoSearch
  /\ NoRendering
  /\ NoSession
  /\ NoStats

\* a generation that keeps the rows of the preview it replaces
dataAfterPreview ==
  IF previewData.kind = "rows"
    THEN Rows(previewData.rows
                \o generateTableData(table, rawData, previousFormTables,
                                     previousPreviousFormTables).rows)
    ELSE generateTableData(table, rawData, previousFormTables, previousPreviousFormTables)

\* data of generatePreviewForTable
data == generateTableData(table, rawData, previousFormTables, previousPreviousFormTables)

\* the arguments after the call of generateTableData
argumentsAfter ==
  argumentsAfterGenerateTableData(table, rawData, previousFormTables,
                                  previousPreviousFormTables)
argumentsKept ==
  /\ table' = argumentsAfter.table
  /\ rawData' = argumentsAfter.rawData
  /\ previousFormTables' = argumentsAfter.previousFormTables
  /\ previousPreviousFormTables' = argumentsAfter.previousPreviousFormTables

\* the first generation of the preview
GenerateTableData ==
  /\ previewData.kind = "none"
  /\ previewData' = data
  /\ argumentsKept
  /\ UNCHANGED <<previewBefore, vvars, mvars, nvars, cvars, pvars, avars, svars>>

\* generatePreviewForTable called again for the same table, with nothing
\* changed: the new data replaces the preview
RegeneratePreview ==
  /\ previewData.kind # "none"
  /\ previewBefore.kind = "none"
  /\ previewBefore' = previewData
  /\ previewData' = data
  /\ argumentsKept
  /\ UNCHANGED <<vvars, mvars, nvars, cvars, pvars, avars, svars>>

NextG == GenerateTableData \/ RegeneratePreview

SpecGen == InitG /\ [][NextG]_vars


(***************************************************************************)
(* Properties of the table preview.                                        *)
(***************************************************************************)
Generated == previewData.kind = "rows"
FromPreviousForm == previousFormTables # <<>>
HasPK(t) == Has(t, "columns") /\ \E c \in 1..Len(t.columns) : Get(t.columns[c], "type") = "PK"

\* the FK-column values of a row followed by its PK-column values
KeyTuple(t, row) ==
  LET ofType(type) == SelectSeq([c \in 1..Len(t.columns) |-> c],
                                LAMBDA c : Get(t.columns[c], "type") = type)
      keyColumns == ofType("FK") \o ofType("PK")
  IN [k \in 1..Len(keyColumns) |-> row[keyColumns[k]]]

NoTwoRowsWithSameKey ==
  \A i \in 1..Len(previewData.rows) : \A j \in (i + 1)..Len(previewData.rows) :
    KeyTuple(table, previewData.rows[i]) # KeyTuple(table, previewData.rows[j])

NoTwoEqualRows ==
  \A i \in 1..Len(previewData.rows) : \A j \in (i + 1)..Len(previewData.rows) :
    previewData.rows[i] # previewData.rows[j]

\* C3 (dedup invariant) as claimed: for a table with a PK column, the rows of
\* generateTableData, from the raw dataset or from previous-form tables, never
\* hold two rows with the same FK-then-PK key tuple.
C3_NoDuplicateKeys ==
  (Generated /\ HasPK(table)) => NoTwoRowsWithSameKey

\* C3 (dedup invariant), amended: the rows generated from previous-form tables
\* for a table with a PK column never hold two rows with the same FK-then-PK key
\* tuple; the rows generated from the raw dataset, and those of a table without
\* a PK column, never hold two equal rows.
C3_DedupInvariant ==
  Generated =>
    IF FromPreviousForm /\ HasPK(table) THEN NoTwoRowsWithSameKey ELSE NoTwoEqualRows

\* a table with a PK column was generated from a previous-form table whose rows
\* repeat a key, and the repeated key was removed
C3_KeyDeduplicated ==
  /\ Generated
  /\ table = EmployeeOfSkill
  /\ previousFormTables = <<EmployeeSkill>>
  /\ rawData = [columns |-> RawColumns, rows |-> <<ScenarioARow>>]
  /\ Len(previewData.rows) = 1

\* null, undefined or whitespace-only
Blank(v) == IsNullish(v) \/ \A k \in 1..Len(v) : IsSpace(CharAt(v, k))

\* the consolidate columns of a table
ConsolidateColumns(t) ==
  SelectSeq(t.columns, LAMBDA col : Get(col, "mappingType") = "consolidate")

\* a stage-1 preview of a table with one consolidate column whose sources are
\* all columns of the raw dataset
FanOutPreview ==
  /\ Generated
  /\ ~FromPreviousForm
  /\ ~IsNullData(rawData)
  /\ Has(table, "columns")
  /\ Len(ConsolidateColumns(table)) = 1
  /\ hasSources(ConsolidateColumns(table)[1])
  /\ Range(ConsolidateColumns(table)[1].sourceCols) \subseteq Range(rawData.columns)

\* m: the number of non-blank values of a raw row among the master sources
NonBlankCount(rawRow) ==
  Cardinality({s \in Range(ConsolidateColumns(table)[1].sourceCols) :
                 /\ indexOf(rawData.columns, s) <= Len(rawRow)
                 /\ ~Blank(rawRow[indexOf(rawData.columns, s)])})

RECURSIVE NonBlankTotal(_)
NonBlankTotal(n) ==
  IF n = 0 THEN 0 ELSE NonBlankTotal(n - 1) + NonBlankCount(rawData.rows[n])

SavedUpstream(i) ==
  Has(previousFormTables[i], "saved") /\ previousFormTables[i].saved = TRUE

\* the rows of the i-th previous-form table
UpstreamRows(i) ==
  previousTableResult(previousFormTables[i], rawData, previousPreviousFormTables).rows

\* the cells of the rows of the saved previous-form tables
SavedUpstreamCells ==
  UNION {With(UpstreamRows(i), LAMBDA rows : UNION {Range(rows[r]) : r \in 1..Len(rows)})
           : i \in {k \in 1..Len(previousFormTables) : SavedUpstream(k)}}

\* the previous-form table whose rows are iterated, 0 when there is none
Driver ==
  With(findMatchingTable(previousFormTables,
                         primaryTableNameOf(table, previousFormTables)),
       LAMBDA primary :
         IF primary = 0 THEN 0 ELSE iterationTable(table, previousFormTables, primary))

\* C15 (only saved upstream tables are sources): in a generation from
\* previous-form tables every cell of the output is empty or a cell of the rows
\* of a previous-form table whose saved flag is true, and when the output has a
\* row the table whose rows are iterated is a saved table.
C15_OnlySavedSources ==
  (Generated /\ FromPreviousForm)
    => /\ previewData.rows # <<>> => (Driver # 0 /\ SavedUpstream(Driver))
       /\ previewData.rows # <<>> =>
            With(SavedUpstreamCells \cup {""},
                 LAMBDA cells : \A r \in 1..Len(previewData.rows) :
                                  Range(previewData.rows[r]) \subseteq cells)

\* a table was generated from a saved table and an unsaved table that holds
\* the skills: the output has the saved table's cell and no skill
C15_UnsavedLeftOut ==
  /\ Generated
  /\ table = EmployeeOfSkill
  /\ previousFormTables = <<Employee, UnsavedEmployeeSkill>>
  /\ rawData = [columns |-> RawColumns, rows |-> <<ScenarioARow>>]
  /\ previewData.rows = << <<"1", "">> >>

\* the saved flag of the i-th table of a list is true
SavedIn(upstream, i) == Has(upstream[i], "saved") /\ upstream[i].saved = TRUE

\* the stage >= 2 algorithm for table t over the tables upstream, whose rows
\* are rowsOf: one row per row of the driver table, duplicates by key removed
DerivedFrom(t, upstream, rowsOf) ==
  IF ~Has(t, "columns") \/ t.columns = <<>> THEN <<>>
  ELSE With(findMatchingTable(upstream, primaryTableNameOf(t, upstream)),
            LAMBDA primary :
              IF primary = 0 \/ ~SavedIn(upstream, primary) \/ IsNullData(rawData)
                THEN <<>>
                ELSE uniqueByKey(rowsOver(t, upstream, rowsOf, primary,
                                          iterationTable(t, upstream, primary)),
                                 LAMBDA row : rowKey(t, row)))

\* the rows of the tables of the form before the previous form, from the raw data
Stage1Rows ==
  [k \in 1..Len(previousPreviousFormTables) |->
     IF SavedIn(previousPreviousFormTables, k)
       THEN generateTableDataFromRaw(previousPreviousFormTables[k], rawData).rows
       ELSE <<>>]

\* the rows of the previous-form tables, derived from those
Stage2Rows ==
  With(Stage1Rows,
       LAMBDA rows1 :
         [i \in 1..Len(previousFormTables) |->
            IF SavedIn(previousFormTables, i)
              THEN DerivedFrom(previousFormTables[i], previousPreviousFormTables, rows1)
              ELSE <<>>])

\* C16 (three-stage derivation without cache): when previousPreviousFormTables
\* is not empty, the rows of every saved previous-form table are those of
\* generateTableData(thatTable, rawData, previousPreviousFormTables), which come
\* from rows derived from the raw dataset, and the result is that of the
\* stage >= 2 algorithm over these rows.
C16_ThreeStageDerivation ==
  (Generated /\ FromPreviousForm /\ previousPreviousFormTables # <<>>)
    => With(Stage2Rows,
            LAMBDA rows2 :
              /\ \A i \in 1..Len(previousFormTables) :
                   SavedIn(previousFormTables, i) =>
                     generateTableData(previousFormTables[i], rawData,
                                       previousPreviousFormTables, <<>>) = Rows(rows2[i])
              /\ previewData = Rows(DerivedFrom(table, previousFormTables, rows2)))

\* a third-form table was generated from a second-form table, whose rows came
\* from a first-form table, whose rows came from one raw row with two skills
C16_ThirdFormGenerated ==
  /\ Generated
  /\ table = SkillList
  /\ previousFormTables = <<Assignment>>
  /\ previousPreviousFormTables = <<EmployeeSkill>>
  /\ rawData = [columns |-> RawColumns, rows |-> <<ScenarioARow>>]
  /\ previewData.rows = << <<"Plumbing">>, <<"Welding">> >>

\* C17 (determinism): two calls of generateTableData with identical arguments
\* return identical row sequences, the same rows in the same order, at every
\* stage.
\* no column of t is a consolidate column
NoConsolidateColumn(t) ==
  \A c \in 1..Len(t.columns) : Get(t.columns[c], "mappingType") # "consolidate"

\* the cell the direct path is to give a column for one raw row
DirectCell(col, rawRow) ==
  IF /\ Get(col, "mappingType") = "direct"
     /\ Has(col, "sourceCols")
     /\ col.sourceCols # <<>>
     /\ \E k \in 1..Len(rawData.columns) : rawData.columns[k] = col.sourceCols[1]
    THEN cellAt(rawRow, indexOf(rawData.columns, col.sourceCols[1]))
    ELSE ""

\* one row per raw row
DirectRows ==
  [r \in 1..Len(rawData.rows) |->
     [c \in 1..Len(table.columns) |-> DirectCell(table.columns[c], rawData.rows[r])]]

\* rows without the rows that repeat an earlier one
FirstOccurrences(rows) ==
  LET kept == SelectSeq([i \in 1..Len(rows) |-> i],
                        LAMBDA i : \A j \in 1..(i - 1) : rows[j] # rows[i])
  IN [k \in 1..Len(kept) |-> rows[kept[k]]]

\* a table with columns, none of them a consolidate column, over a raw dataset
Stage1Direct ==
  /\ ~FromPreviousForm
  /\ ~IsNullData(rawData)
  /\ Has(table, "columns")
  /\ table.columns # <<>>
  /\ NoConsolidateColumn(table)

\* C25: for a stage-1 table with no consolidate column, generateTableData
\* returns one row per raw row with identical rows removed (first occurrence
\* kept); each direct column holds the raw row's value of its source column,
\* and every other column, as well as every direct column whose source is not
\* a raw column, holds the empty string.
C25_Stage1DirectPath ==
  (Generated /\ Stage1Direct) => previewData.rows = FirstOccurrences(DirectRows)

\* the table with a metadata column, an unmapped column and a source that is no
\* raw column was generated from two raw rows that give the same row
C25_DuplicateDirectRowRemoved ==
  /\ Generated
  /\ table = Contact
  /\ ~IsNullData(rawData)
  /\ Len(rawData.rows) = 2
  /\ rawData.rows[1] # rawData.rows[2]
  /\ previewData.rows = << <<"2", "", "", "">> >>

MasterSourceCols ==
  SelectSeq(table.columns,
            LAMBDA col : Get(col, "mappingType") = "consolidate" /\ hasSources(col))[1].sourceCols

\* row is what the raw row yields for position p of the master list: each
\* metadata column names the master source column at p, each consolidate
\* column holds the raw row's value of its own source column at p
StemsFrom(row, rawRow, p) ==
  /\ indexOf(rawData.columns, MasterSourceCols[p]) # 0
  /\ hasValue(cellAt(rawRow, indexOf(rawData.columns, MasterSourceCols[p])))
  /\ \A c \in 1..Len(table.columns) :
       LET col == table.columns[c]
       IN /\ Get(col, "mappingType") = "metadata" => row[c] = MasterSourceCols[p]
          /\ (Get(col, "mappingType") = "consolidate" /\ Has(col, "sourceCols")
                /\ Len(col.sourceCols) >= p
                /\ indexOf(rawData.columns, col.sourceCols[p]) # 0)
               => row[c] = cellAt(rawRow, indexOf(rawData.columns, col.sourceCols[p]))

\* C19: in stage-1 generation with a consolidate column, every output row stems
\* from one non-blank cell of one master source column: its metadata columns
\* hold the name of that master source column and its consolidate columns the
\* raw row's value of their own source column at the same position, also when
\* some entries of the master source list are not columns of the raw dataset.
C19_UnpivotCellContents ==
  (/\ Generated
   /\ ~FromPreviousForm
   /\ Has(table, "columns")
   /\ \E c \in 1..Len(table.columns) :
        Get(table.columns[c], "mappingType") = "consolidate" /\ hasSources(table.columns[c]))
  => \A k \in 1..Len(previewData.rows) :
       \E r \in 1..Len(rawData.rows), p \in 1..Len(MasterSourceCols) :
         StemsFrom(previewData.rows[k], rawData.rows[r], p)

\* the previous-form table a source column refers to, 0 when there is none:
\* the table matching the name before the dot, or the first table that has a
\* column of that name
ReferredTable(sourceCol) ==
  IF includes(sourceCol, ".")
    THEN findMatchingTable(previousFormTables, splitDot(sourceCol)[1])
    ELSE firstIndex(previousFormTables,
                    LAMBDA t : /\ Has(t, "columns")
                               /\ \E c \in 1..Len(t.columns) :
                                    Get(t.columns[c], "name") = sourceCol)

\* the number of references to the i-th previous-form table
References(i) ==
  Cardinality({n \in 1..Len(allSourceCols(table)) :
                 ReferredTable(allSourceCols(table)[n]) = i})

\* the previous-form tables that every column with sources refers to
ReferredByEveryColumn ==
  {i \in 1..Len(previousFormTables) :
     /\ allSourceCols(table) # <<>>
     /\ \A c \in 1..Len(table.columns) :
          hasSources(table.columns[c])
          => \E n \in 1..Len(table.columns[c].sourceCols) :
               ReferredTable(table.columns[c].sourceCols[n]) = i}

\* the driver as the rule names it
MostReferred ==
  IF Cardinality(ReferredByEveryColumn) = 1
    THEN CHOOSE i \in ReferredByEveryColumn : TRUE
  ELSE IF \A i \in 1..Len(previousFormTables) : References(i) = 0 THEN 1
  ELSE CHOOSE i \in 1..Len(previousFormTables) :
         /\ \A j \in 1..Len(previousFormTables) : References(j) <= References(i)
         /\ \A j \in 1..(i - 1) : References(j) < References(i)

\* C20: the upstream table whose rows drive the iteration is the table with
\* the highest number of references from this table's columns (the first on a
\* tie); one single upstream table referenced by every column is the driver
\* regardless of the counts; if no reference resolves to a table, the first
\* upstream table is the driver.
C20_DriverSelection ==
  (/\ Generated
   /\ FromPreviousForm
   /\ ~IsNullData(rawData)
   /\ Has(table, "columns") /\ table.columns # <<>>
   /\ \A i \in 1..Len(previousFormTables) :
        isSaved(previousFormTables[i]) /\ Has(previousFormTables[i], "columns"))
  => Driver = MostReferred

\* the index of the column of t named columnName, 0 when there is none
ColumnNamed(t, columnName) ==
  firstIndex(t.columns, LAMBDA col : Get(col, "name") = columnName)

\* the previous-form table whose name is written before the dot of a
\* qualified source, 0 when there is none
NamedTable(sourceCol) ==
  firstIndex(previousFormTables,
             LAMBDA t : Get(t, "name") = splitDot2(sourceCol)[1])

\* column c has the single qualified source T.c, T is a saved previous-form
\* table with a column c, and rows[T] has a non-null value at row i there
AlignedSource(c, i, rows) ==
  /\ Get(table.columns[c], "mappingType") \in {"direct", "consolidate", "metadata"}
  /\ hasSources(table.columns[c])
  /\ Len(table.columns[c].sourceCols) = 1
  /\ includes(table.columns[c].sourceCols[1], ".")
  /\ With(NamedTable(table.columns[c].sourceCols[1]),
          LAMBDA t :
            /\ t # 0
            /\ SavedUpstream(t)
            /\ Has(previousFormTables[t], "columns")
            /\ With(ColumnNamed(previousFormTables[t],
                                splitDot2(table.columns[c].sourceCols[1])[2]),
                    LAMBDA k : /\ k # 0
                               /\ i <= Len(rows[t])
                               /\ ~IsNullish(cellAt(rows[t][i], k))))

\* the value at row i of the column that the source of column c names
AlignedValue(c, i, rows) ==
  With(NamedTable(table.columns[c].sourceCols[1]),
       LAMBDA t : cellAt(rows[t][i],
                         ColumnNamed(previousFormTables[t],
                                     splitDot2(table.columns[c].sourceCols[1])[2])))

\* C21: in stage >= 2 generation exactly one row is built per row of the
\* driver table before de-duplication, so the output never has more rows than
\* the driver table, and the cell of built row i for a column whose qualified
\* source T.c resolves to a saved upstream table T with more than i generated
\* rows and a non-null value there is the value at row i, column c of T's rows.
C21_PositionalAlignment ==
  (/\ Generated
   /\ FromPreviousForm
   /\ ~IsNullData(rawData)
   /\ Has(table, "columns") /\ table.columns # <<>>
   /\ \A t \in 1..Len(previousFormTables) : Has(previousFormTables[t], "columns"))
  => With([t \in 1..Len(previousFormTables) |->
             IF SavedUpstream(t) THEN UpstreamRows(t) ELSE <<>>],
          LAMBDA rows :
            With(previousFormRows(table, previousFormTables, rawData,
                                  previousPreviousFormTables),
                 LAMBDA built :
                   /\ Len(previewData.rows) <= Len(built)
                   /\ built # <<>> => Len(built) = Len(rows[Driver])
                   /\ \A i \in 1..Len(built) : \A c \in 1..Len(table.columns) :
                        AlignedSource(c, i, rows) => built[i][c] = AlignedValue(c, i, rows)))

\* the number of primary-key errors in a list of errors
PkErrorCount(errors) ==
  Cardinality({e \in 1..Len(errors) : startsWith(errors[e], "Primary keys don't match")})

\* the solution's PK column names, each replaced by the normalized name of its
\* matched user column when there is one
ResolvedSolutionPKs(i, j) ==
  {IF findMatchingColumn(c.name, userTables[i].columns) # 0
     THEN normalizeName(userTables[i].columns[
                          findMatchingColumn(c.name, userTables[i].columns)].name)
     ELSE normalizeName(c.name)
     : c \in {d \in Range(solutionTables[j].columns) : Get(d, "type") = "PK"}}

\* the normalized names of the user's PK columns
UserPKs(i) ==
  {normalizeName(c.name) : c \in {d \in Range(userTables[i].columns) : typeUpper(d) = "PK"}}

\* C23: validateTable adds exactly one "Primary keys don't match" error if the
\* set of solution PK column names, each replaced by the normalized name of its
\* matched user column when findMatchingColumn finds one, differs from the set
\* of normalized names of the user's PK columns, and adds no such error when
\* the two sets are equal.
C23_PrimaryKeySetCheck ==
  (Reported /\ AllNamed(solutionTables))
    => \A i \in 1..Len(userTables) : \A j \in 1..Len(solutionTables) :
         PkErrorCount(validateTable(userTables[i], solutionTables[j]).errors)
           = IF ResolvedSolutionPKs(i, j) # UserPKs(i) THEN 1 ELSE 0

\* a user table with a primary key that the solution table does not have was
\* validated, and the solution's own keys are all keys of the user table
C23_ExtraKeyReported ==
  /\ Reported
  /\ AllNamed(solutionTables)
  /\ \E i \in 1..Len(userTables) :
       /\ i <= Len(solutionTables)
       /\ ResolvedSolutionPKs(i, i) \subseteq UserPKs(i)
       /\ ResolvedSolutionPKs(i, i) # UserPKs(i)
       /\ PkErrorCount(tableErrors(i)) = 1

(***************************************************************************)
(* The two entry points together: a run is either a validation session,    *)
(* which calls validateSolution, or a preview, which calls                 *)
(* generateTableData.                                                      *)
(***************************************************************************)
InSession == table = [columns |-> <<>>]

InitC == InitV \/ InitG
NextC ==
  \/ InSession /\ NextV
  \/ ~InSession /\ NextG
SpecCalls == InitC /\ [][NextC]_vars

MaxSources == 2

\* source columns as they are written in mappings
SourcePool ==
  {"ID", " id", "BUDGET", "PROJECT.BUDGET", "Project Details.PROJECT_BUDGET"}
SourceLists == UNION {[1..n -> SourcePool] : n \in 0..MaxSources}

UserColumns ==
  {Col("ID", "PK"), [name |-> "ID", type |-> "PK", mappingType |-> "direct"]}
  \cup {MappedCol("ID", "PK", m, src) : m \in {"direct", "consolidate"}, src \in SourceLists}
SolutionColumns ==
  {Col("ID", "PK")} \cup {MappedCol("ID", "PK", "direct", src) : src \in SourceLists}

InitM ==
  /\ userCol \in UserColumns
  /\ solutionCol \in SolutionColumns
  /\ mappingValidation = NoValidation
  /\ solutionTables = <<>>
  /\ userTables = <<>>
  /\ validationResult = NoResult
  /\ edits = 0
  /\ NoGeneration
  /\ NoNames
  /\ NoSearch
  /\ NoRendering
  /\ NoSession
  /\ NoStats

\* validateColumnMapping(userCol, solutionCol)
ValidateColumnMapping ==
  /\ mappingValidation.kind = "none"
  /\ mappingValidation' =
       With(validateColumnMapping(userCol, solutionCol),
            LAMBDA r : [kind |-> "result", valid |-> r.valid, error |-> r.error])
  /\ UNCHANGED <<userCol, solutionCol, vvars, gvars, nvars, cvars, pvars, avars, svars>>

NextM == ValidateColumnMapping

SpecMapping == InitM /\ [][NextM]_vars

(***************************************************************************)
(* Properties of the mapping check.                                        *)
(***************************************************************************)
\* the solution column carries mapping metadata and the user column has the
\* same mappingType
SameMappingType ==
  /\ Truthy(solutionCol, "mappingType")
  /\ Has(solutionCol, "sourceCols")
  /\ Get(userCol, "mappingType") = solutionCol.mappingType

\* a source column of the user column matches a source column of the solution
SomeSourceMatches ==
  /\ Has(userCol, "sourceCols")
  /\ \E u \in 1..Len(userCol.sourceCols) : \E s \in 1..Len(solutionCol.sourceCols) :
       sourceColsMatch(userCol.sourceCols[u], solutionCol.sourceCols[s])

\* C12 (existential source check): for a solution column with mapping metadata
\* and a user column with the same mappingType, validateColumnMapping accepts
\* the user column if and only if at least one of the user column's sourceCols
\* matches at least one of the solution column's sourceCols by sourceColsMatch.
C12_ExistentialSourceCheck ==
  (mappingValidation.kind = "result" /\ SameMappingType)
    => (mappingValidation.valid <=> SomeSourceMatches)

\* a user column with two sources was accepted for a solution column with two
\* sources of which it matches one, by the flexible table and column names
C12_OneOfTwoAccepted ==
  /\ mappingValidation.kind = "result"
  /\ mappingValidation.valid
  /\ SameMappingType
  /\ Has(userCol, "sourceCols")
  /\ userCol.sourceCols = <<"ID", "PROJECT.BUDGET">>
  /\ solutionCol.sourceCols = <<"Project Details.PROJECT_BUDGET", "BUDGET">>

(***************************************************************************)
(* The table-name tests on their own: tablesMatch of the generator,        *)
(* tablesMatchByName of the validator and the test of findMatchingTables,  *)
(* applied to two names in both orders.                                    *)
(***************************************************************************)
\* table names as users and solutions write them
NamePool ==
  {"FLIGHT", "FLIGHT_DETAILS", "DETAILS_FLIGHT", "flight crew", " Crew_Member ", "CREW",
   "CHARTER_TRIP", "CHARTERTRIP", "PROJECT", "_", ""}

InitN ==
  /\ tableName1 \in NamePool
  /\ tableName2 \in NamePool
  /\ nameMatches = NoAnswers
  /\ solutionTables = <<>>
  /\ userTables = <<>>
  /\ validationResult = NoResult
  /\ edits = 0
  /\ NoGeneration
  /\ NoMapping
  /\ NoSearch
  /\ NoRendering
  /\ NoSession
  /\ NoStats

\* the answer of findMatchingTables for a user table and one solution table
matchesSolutionTable(userTableName, solutionTableName) ==
  findMatchingTables([name |-> userTableName], <<[name |-> solutionTableName]>>) # <<>>

\* each test applied to (tableName1, tableName2) and to (tableName2, tableName1)
MatchTableNames ==
  /\ nameMatches.kind = "none"
  /\ nameMatches' =
       [kind |-> "result",
        tablesMatch |-> <<tablesMatch(tableName1, tableName2),
                          tablesMatch(tableName2, tableName1)>>,
        tablesMatchByName |-> <<tablesMatchByName(tableName1, tableName2),
                                tablesMatchByName(tableName2, tableName1)>>,
        findMatchingTables |-> <<matchesSolutionTable(tableName1, tableName2),
                                 matchesSolutionTable(tableName2, tableName1)>>]
  /\ UNCHANGED <<tableName1, tableName2, vvars, gvars, mvars, cvars, pvars, avars, svars>>

NextN == MatchTableNames

SpecNames == InitN /\ [][NextN]_vars

(***************************************************************************)
(* Properties of the table-name tests.                                     *)
(***************************************************************************)
\* C14 (name-resolution symmetry): for every pair of names a and b, tablesMatch
\* of the generator, tablesMatchByName of the validator and the name test of
\* findMatchingTables each give the same answer for (a, b) and for (b, a).
C14_NameSymmetry ==
  nameMatches.kind = "result"
    => /\ nameMatches.tablesMatch[1] = nameMatches.tablesMatch[2]
       /\ nameMatches.tablesMatchByName[1] = nameMatches.tablesMatchByName[2]
       /\ nameMatches.findMatchingTables[1] = nameMatches.findMatchingTables[2]

\* a name and a longer name that contains it were matched in both orders
C14_ContainedMatchedBothWays ==
  /\ nameMatches.kind = "result"
  /\ tableName1 = "FLIGHT_DETAILS"
  /\ tableName2 = "FLIGHT"
  /\ nameMatches.tablesMatch = <<TRUE, TRUE>>
  /\ nameMatches.tablesMatchByName = <<TRUE, TRUE>>
  /\ nameMatches.findMatchingTables = <<TRUE, TRUE>>

(***************************************************************************)
(* The column search on its own: findMatchingColumn applied to a target    *)
(* column name and a list of columns.                                      *)
(***************************************************************************)
MaxColumns == 2

ColumnNamePool ==
  {"PROJECT_BUDGET", "project budget", "BUDGET", "PROJECT",
   "CHAR_TRIP_DATE", "CHAR_TRIP", "CREW_MEM", "CREW_MEMBER"}

ColumnLists ==
  UNION {[1..n -> {[name |-> c] : c \in ColumnNamePool}] : n \in 0..MaxColumns}

InitS ==
  /\ targetColName \in ColumnNamePool
  /\ columnsToSearch \in ColumnLists
  /\ matchingColumn = NotSearched
  /\ solutionTables = <<>>
  /\ userTables = <<>>
  /\ validationResult = NoResult
  /\ edits = 0
  /\ NoGeneration
  /\ NoMapping
  /\ NoNames
  /\ NoRendering
  /\ NoSession
  /\ NoStats

\* findMatchingColumn(targetColName, columnsToSearch)
FindMatchingColumn ==
  /\ matchingColumn.kind = "none"
  /\ matchingColumn' = [kind |-> "found",
                        index |-> findMatchingColumn(targetColName, columnsToSearch)]
  /\ UNCHANGED <<targetColName, columnsToSearch, vvars, gvars, mvars, nvars, pvars, avars, svars>>

NextS == FindMatchingColumn
SpecColumns == InitS /\ [][NextS]_vars

\* the normalized names of the target and of the column that was found
TargetNorm == normalizeName(targetColName)
FoundNorm == normalizeName(columnsToSearch[matchingColumn.index].name)
Searched == matchingColumn.kind = "found"
Found == Searched /\ matchingColumn.index # 0

\* a is a proper prefix of b and not a suffix of it
ProperPrefixOnly(a, b) == Len(a) < Len(b) /\ startsWith(b, a) /\ ~endsWith(b, a)

\* C22: findMatchingColumn returns a candidate that is related to the target
\* only by prefix containment (one normalized name is a proper prefix of the
\* other and not a suffix of it) only if the shorter normalized name is at
\* least 70% as long as the longer one.
C22_PrefixThreshold ==
  Found =>
    /\ ProperPrefixOnly(TargetNorm, FoundNorm)
         => Len(TargetNorm) * OverlapDen >= Len(FoundNorm) * OverlapNum
    /\ ProperPrefixOnly(FoundNorm, TargetNorm)
         => Len(FoundNorm) * OverlapDen >= Len(TargetNorm) * OverlapNum

\* findMatchingColumn with the one candidate c accepts it
AcceptedAlone(c) == findMatchingColumn(targetColName, <<columnsToSearch[c]>>) # 0

\* C26: whenever some candidate column's normalized name equals the
\* normalized target name, findMatchingColumn returns a candidate whose
\* normalized name equals the target's, whatever the order of the candidates
\* and whatever prefix, suffix or token matches other candidates offer; it
\* returns null only if no rule accepts any candidate.
C26_ExactMatchPriority ==
  Searched =>
    /\ (\E c \in 1..Len(columnsToSearch) :
          normalizeName(columnsToSearch[c].name) = TargetNorm)
         => (Found /\ FoundNorm = TargetNorm)
    /\ ~Found => \A c \in 1..Len(columnsToSearch) : ~AcceptedAlone(c)

(***************************************************************************)
(* The previews of the table builder: generatePreviewForTable for the      *)
(* table being built and PreviousFormTablesView for the tables of the form *)
(* before it.                                                              *)
(***************************************************************************)
PreviousFormLists == {<<>>, <<Employee>>, <<UnmappedTable>>, <<NoColumnsTable>>}

InitP ==
  /\ table \in Stage1Tables
  /\ previousFormTables \in PreviousFormLists
  /\ previousPreviousFormTables = <<>>
  /\ rawData \in RawDataSets
  /\ previewData = NoPreview
  /\ previewBefore = NoPreview
  /\ solutionTables = <<>>
  /\ userTables = <<>>
  /\ validationResult = NoResult
  /\ edits = 0
  /\ NoMapping
  /\ NoNames
  /\ NoSearch
  /\ NoRendering
  /\ NoSession
  /\ NoStats

\* table.columns.every(col => col.mappingType && col.sourceCols &&
\* col.sourceCols.length > 0)
hasValidMappings(t) ==
  \A c \in 1..Len(t.columns) :
    TruthyValue(Get(t.columns[c], "mappingType")) /\ hasSources(t.columns[c])

\* previewData[tableId] after generatePreviewForTable(tableId)
previewAfterGenerate ==
  IF IsNullData(rawData) /\ previousFormTables = <<>> THEN previewData
  ELSE IF ~Has(table, "columns") \/ table.columns = <<>> THEN NoPreview
  ELSE IF ~hasValidMappings(table) THEN previewData
  ELSE data

GeneratePreviewForTable ==
  /\ previewData' = previewAfterGenerate
  /\ UNCHANGED <<table, rawData, previousFormTables, previousPreviousFormTables,
                 previewBefore, vvars, mvars, nvars, cvars, pvars, avars, svars>>

\* previousFormName: the previous form is 2NF when it has a form before it
previousFormName == IF previousPreviousFormTables # <<>> THEN "2NF" ELSE "1NF"

\* previewData of one table of PreviousFormTablesView
previousFormPreview(t) ==
  IF isSaved(t) /\ ~IsNullData(rawData)
    THEN IF previousFormName = "2NF" /\ previousPreviousFormTables # <<>>
           THEN generateTableData(t, rawData, previousPreviousFormTables, <<>>)
           ELSE generateTableData(t, rawData, <<>>, <<>>)
    ELSE Rows(<<>>)

\* PreviousFormTablesView renders the previous-form tables with their previews
RenderPreviousFormTables ==
  /\ previousFormTables # <<>>
  /\ tablesWithData.kind = "none"
  /\ tablesWithData' =
       [kind |-> "rendered",
        previews |-> [i \in 1..Len(previousFormTables) |->
                        previousFormPreview(previousFormTables[i])]]
  /\ UNCHANGED <<vvars, gvars, mvars, nvars, cvars, avars, svars>>

NextP == GeneratePreviewForTable \/ RenderPreviousFormTables
SpecPreview == InitP /\ [][NextP]_vars

\* every column of t has a mapping kind and at least one source
CompletelyMapped(t) ==
  /\ Has(t, "columns")
  /\ t.columns # <<>>
  /\ \A c \in 1..Len(t.columns) :
       /\ Get(t.columns[c], "mappingType") \in {"direct", "consolidate", "metadata"}
       /\ Has(t.columns[c], "sourceCols")
       /\ t.columns[c].sourceCols # <<>>

\* C24: no preview rows are generated for a table that has zero columns or in
\* which some column lacks a mappingType or has an empty or missing sourceCols
\* list; preview rows for that table are produced only once every column has a
\* mapping kind and at least one source.
C24_IncompleteMappingSuppressesPreview ==
  /\ previewData.rows # <<>> => CompletelyMapped(table)
  /\ \A i \in 1..Len(tablesWithData.previews) :
       tablesWithData.previews[i].rows # <<>> => CompletelyMapped(previousFormTables[i])

(***************************************************************************)
(* The session of the application (App.jsx): the selected dataset, the     *)
(* current form, and the localStorage items normalizationProgress,         *)
(* lastView and normalizationWork.                                         *)
(***************************************************************************)
\* table changes in one session
MaxChanges == 2

\* selectedDataset.solutions[form].tables
SolutionsOf(datasetId, form) ==
  IF datasetId = "flight-charter"
    THEN (IF form = "1NF" THEN CharterSolution
          ELSE IF form = "2NF" THEN CrewSolution ELSE OrderSolution)
    ELSE ProjectSolution

\* the tables of a solution as generated by the help system, then saved
SavedCopyOf(solution) ==
  [i \in 1..Len(solution) |-> withSaved(generatedTable(solution[i]), TRUE)]
UnsavedCopyOf(solution) ==
  [i \in 1..Len(solution) |-> withSaved(generatedTable(solution[i]), FALSE)]

\* the form before a form, and the form after it
previousFormOf(form) ==
  IF indexOf(NORMALIZATION_FORMS, form) > 1
    THEN NORMALIZATION_FORMS[indexOf(NORMALIZATION_FORMS, form) - 1] ELSE Undefined
nextFormOf(form) ==
  IF indexOf(NORMALIZATION_FORMS, form) < Len(NORMALIZATION_FORMS)
    THEN NORMALIZATION_FORMS[indexOf(NORMALIZATION_FORMS, form) + 1] ELSE Undefined

\* progress[datasetId]?.[form] === true
isFormCompleted(datasetId, form) == datasetId \in DatasetIds /\ form \in progress[datasetId]

\* a gate that lets every form through
canAccessAnyForm(form, dataset) == TRUE
canAccessForm(form, dataset) ==
  IF form = "1NF" THEN TRUE
  ELSE IF dataset = NoDataset THEN FALSE
  ELSE IF isFormCompleted(dataset, form) THEN TRUE
  ELSE isFormCompleted(dataset, previousFormOf(form))

getFormStatus(form) ==
  IF selectedDataset = NoDataset THEN "locked"
  ELSE IF isFormCompleted(selectedDataset, form) THEN "completed"
  ELSE IF form = currentForm THEN "current"
  ELSE IF canAccessForm(form, selectedDataset) THEN "available"
  ELSE "locked"

\* allWork[datasetId]?.[form] || []
loadTablesForForm(datasetId, form) == work[datasetId][form]

\* the effect that saves the work and the last view after a render with a
\* selected dataset
SaveWork ==
  IF selectedDataset' # NoDataset
    THEN /\ work' = [work EXCEPT ![selectedDataset'][currentForm'] = userTables']
         /\ lastView' = [datasetId |-> selectedDataset', form |-> currentForm']
    ELSE UNCHANGED <<work, lastView>>

InitA ==
  /\ NoSession
  /\ solutionTables = <<>>
  /\ userTables = <<>>
  /\ validationResult = NoResult
  /\ edits = 0
  /\ NoGeneration
  /\ NoMapping
  /\ NoNames
  /\ NoSearch
  /\ NoRendering
  /\ NoStats

\* the page is loaded again: the state is built from localStorage
mountApp ==
  /\ IF lastView.datasetId # NoDataset
       THEN /\ selectedDataset' = lastView.datasetId
            /\ currentForm' = IF canAccessForm(lastView.form, lastView.datasetId)
                                THEN lastView.form ELSE "1NF"
            /\ userTables' = loadTablesForForm(lastView.datasetId, currentForm')
       ELSE /\ selectedDataset' = NoDataset
            /\ currentForm' = "1NF"
            /\ userTables' = <<>>
  /\ validationResult' = NoResult
  /\ UNCHANGED <<work, lastView, progress, solutionTables, edits>>
  /\ UNCHANGED <<gvars, mvars, nvars, cvars, pvars, svars>>

\* the dataset selector is shown while no dataset is selected
handleSelectDataset ==
  /\ selectedDataset = NoDataset
  /\ \E dataset \in DatasetIds :
       /\ selectedDataset' = dataset
       /\ currentForm' = IF /\ lastView.datasetId = dataset
                            /\ canAccessForm(lastView.form, dataset)
                           THEN lastView.form ELSE "1NF"
       /\ userTables' = loadTablesForForm(dataset, currentForm')
  /\ validationResult' = NoResult
  /\ SaveWork
  /\ UNCHANGED <<progress, solutionTables, edits>>
  /\ UNCHANGED <<gvars, mvars, nvars, cvars, pvars, svars>>

\* the button Change Dataset
changeDataset ==
  /\ selectedDataset # NoDataset
  /\ selectedDataset' = NoDataset
  /\ validationResult' = NoResult
  /\ UNCHANGED <<currentForm, userTables, progress, lastView, work, solutionTables, edits>>
  /\ UNCHANGED <<gvars, mvars, nvars, cvars, pvars, svars>>

\* the table builder hands over the changed tables
onTablesChange ==
  /\ selectedDataset # NoDataset
  /\ edits < MaxChanges
  /\ edits' = edits + 1
  /\ userTables' \in {<<>>,
                      SavedCopyOf(SolutionsOf(selectedDataset, currentForm)),
                      UnsavedCopyOf(SolutionsOf(selectedDataset, currentForm))}
  /\ userTables' # userTables
  /\ UNCHANGED <<selectedDataset, currentForm, progress, validationResult, solutionTables>>
  /\ SaveWork
  /\ UNCHANGED <<gvars, mvars, nvars, cvars, pvars, svars>>

\* the result handleCheckAnswer shows for the current form
checkedAnswer ==
  IF unsavedTables(userTables) # <<>>
    THEN saveFirstResult(userTables)
    ELSE validateSolution(userTables, SolutionsOf(selectedDataset, currentForm))

\* handleCheckAnswer with markFormCompleted
checkAnswerOfForm ==
  /\ selectedDataset # NoDataset
  /\ checkedAnswer.kind # "TypeError"
  /\ validationResult' = checkedAnswer
  /\ solutionTables' = SolutionsOf(selectedDataset, currentForm)
  /\ progress' = IF checkedAnswer.isValid
                   THEN [progress EXCEPT ![selectedDataset] = @ \cup {currentForm}]
                   ELSE progress
  /\ UNCHANGED <<selectedDataset, currentForm, userTables, lastView, work, edits>>
  /\ UNCHANGED <<gvars, mvars, nvars, cvars, pvars, svars>>

\* the state after handleFormChange(form)
FormChangedTo(form) ==
  /\ currentForm' = form
  /\ userTables' = loadTablesForForm(selectedDataset, form)
  /\ validationResult' = NoResult
  /\ UNCHANGED <<selectedDataset, progress, solutionTables, edits>>
  /\ SaveWork
  /\ UNCHANGED <<gvars, mvars, nvars, cvars, pvars, svars>>

\* the progress indicator has a button for a form that is not locked
handleFormChange ==
  /\ selectedDataset # NoDataset
  /\ \E form \in Forms :
       /\ getFormStatus(form) # "locked"
       /\ FormChangedTo(form)

\* the button Continue is shown after a valid answer when the next form is
\* accessible
handleNextForm ==
  /\ selectedDataset # NoDataset
  /\ validationResult.kind = "report"
  /\ validationResult.isValid
  /\ nextFormOf(currentForm) # Undefined
  /\ canAccessForm(nextFormOf(currentForm), selectedDataset)
  /\ FormChangedTo(nextFormOf(currentForm))

\* the button Reset Dataset resets the selected dataset
handleResetDataset ==
  /\ selectedDataset # NoDataset
  /\ progress' = [progress EXCEPT ![selectedDataset] = {}]
  /\ currentForm' = "1NF"
  /\ userTables' = <<>>
  /\ validationResult' = NoResult
  /\ work' = [work EXCEPT ![selectedDataset] = NoWork[selectedDataset]]
  /\ lastView' = [datasetId |-> selectedDataset, form |-> "1NF"]
  /\ UNCHANGED <<selectedDataset, solutionTables, edits>>
  /\ UNCHANGED <<gvars, mvars, nvars, cvars, pvars, svars>>

\* the button Reset All Progress, confirmed
handleResetProgress ==
  /\ progress' = NoProgress
  /\ work' = NoWork
  /\ lastView' = NoLastView
  /\ selectedDataset' = NoDataset
  /\ currentForm' = "1NF"
  /\ userTables' = <<>>
  /\ validationResult' = NoResult
  /\ UNCHANGED <<solutionTables, edits>>
  /\ UNCHANGED <<gvars, mvars, nvars, cvars, pvars, svars>>

NextA ==
  \/ mountApp
  \/ handleSelectDataset
  \/ changeDataset
  \/ onTablesChange
  \/ checkAnswerOfForm
  \/ handleFormChange
  \/ handleNextForm
  \/ handleResetDataset
  \/ handleResetProgress
SpecApp == InitA /\ [][NextA]_vars

\* C29 (form gating): in every reachable state with a selected dataset, the
\* current form is 1NF, or a form recorded as completed for that dataset, or a
\* form whose preceding form is recorded as completed for that dataset.
C29_FormGating ==
  selectedDataset # NoDataset =>
    \/ currentForm = "1NF"
    \/ currentForm \in progress[selectedDataset]
    \/ previousFormOf(currentForm) \in progress[selectedDataset]

\* the third form is open after the first two were completed
C29_ThirdFormReached ==
  /\ selectedDataset # NoDataset
  /\ currentForm = "3NF"
  /\ progress[selectedDataset] = {"1NF", "2NF"}

(***************************************************************************)
(* The mapping statistics of the raw data view: getMappingStats on the     *)
(* user's tables, the raw columns and the tables of the form before.       *)
(***************************************************************************)
\* tables in the table builder
MaxTables == 2

StatsTablePool == Stage1Tables \cup Stage2Tables
StatsTables == UNION {[1..n -> StatsTablePool] : n \in 0..MaxTables}
StatsPreviousForms == {<<>>} \cup Stage1Saved

InitT ==
  /\ userTables \in StatsTables
  /\ previousFormTables \in StatsPreviousForms
  /\ rawData \in {NullData, [columns |-> RawColumns, rows |-> <<ScenarioARow>>]}
  /\ table = [columns |-> <<>>]
  /\ previousPreviousFormTables = <<>>
  /\ previewData = NoPreview
  /\ previewBefore = NoPreview
  /\ solutionTables = <<>>
  /\ validationResult = NoResult
  /\ edits = 0
  /\ NoMapping
  /\ NoNames
  /\ NoSearch
  /\ NoRendering
  /\ NoSession
  /\ NoStats

\* rawData.columns as the application passes it
rawColumnsGiven == IF IsNullData(rawData) THEN Null ELSE rawData.columns

GetMappingStats ==
  /\ mappingStats.kind = "none"
  /\ mappingStats' = getMappingStats(userTables, rawColumnsGiven, previousFormTables)
  /\ UNCHANGED <<vvars, gvars, mvars, nvars, cvars, pvars, avars>>

NextT == GetMappingStats
SpecStats == InitT /\ [][NextT]_vars

\* the source columns of the call, and those of them that a column of the
\* user's tables names as a source
StatsSourceColumns == sourceColumnsOf(rawColumnsGiven, previousFormTables)
SourceIsMapped(col) ==
  \E t \in 1..Len(userTables) :
    /\ Has(userTables[t], "columns")
    /\ \E c \in 1..Len(userTables[t].columns) :
         /\ Has(userTables[t].columns[c], "sourceCols")
         /\ \E k \in 1..Len(userTables[t].columns[c].sourceCols) :
              userTables[t].columns[c].sourceCols[k] = col
MappedSources == SelectSeq(StatsSourceColumns, SourceIsMapped)

\* C30 (mapping statistics): getMappingStats returns mapped + unmapped = total
\* with unmapped >= 0, unmapped equal to the length of unmappedColumns, mapped
\* equal to the number of source columns that are actually mapped, and
\* 0 <= percentage <= 100.
C30_MappingStatsConsistent ==
  mappingStats.kind = "stats" =>
    /\ mappingStats.mapped + mappingStats.unmapped = mappingStats.total
    /\ mappingStats.unmapped >= 0
    /\ mappingStats.unmapped = Len(mappingStats.unmappedColumns)
    /\ mappingStats.mapped = Len(MappedSources)
    /\ mappingStats.percentage >= 0
    /\ mappingStats.percentage <= 100

=============================================================================
